---------------------------- MODULE Spec2Model ----------------------------
(***************************************************************************)
(* A model of the es6-transpiler core (scope/binding resolver, fresh-name  *)
(* and shared-helper allocator, closure-in-loop checker) and of the class  *)
(* lowering engine and the parameter lowering pass.                        *)
(*                                                                         *)
(* Strings are JavaScript strings; \o is string concatenation.  A scope    *)
(* or node reference is an index into an arena (a sequence); 0 is null.    *)
(***************************************************************************)
EXTENDS Integers, Sequences, FiniteSets, TLC

VARIABLES
    scopes,            \* arena of Scope objects: kind, node type, node, parent, begin
    decls,             \* decls[s]: the name -> declaration map of scope s
    propagates,        \* propagates[s]: names looked up through hoist scope s
    allIdentifiers,    \* core.allIdentifiers: the name registry (a string set)
    bubbledVariables,  \* core.bubbledVariables: logical name -> BubbledVariable
    changes,           \* the edits handed to the alter collaborator, in call order
    error,             \* "" or the failure that aborted the unit
    errorNode,         \* the node the failure was reported at, 0 if none
    ast,               \* the parsed tree: an arena of nodes in traversal order
    nodeScope,         \* node.$scope of every node, 0 before the scope pass
    refToScope,        \* node.$refToScope: -1 unset, 0 null, else a scope
    options,           \* the options given to setup()
    pc,                \* the pass the unit is in
    outermostLoop,     \* core.outermostLoop: a node, 0 for null
    functions,         \* core.functions: the stack of function nodes
    classesTranspiler, \* the fields of the class-lowering engine
    classNodes,        \* the class declarations of the unit lowered so far
    fnNodes,           \* the functions of the unit whose parameters were lowered
    nameByToken,       \* core.__nameByToken: token -> name, <<>> when absent or empty
    thisUsing,         \* the scopes marked by markThisUsing()
    uniqueLog,         \* history: the unique() calls and what each returned
    bubbleLog          \* history: the bubbledVariableDeclaration() requests

coreVars == <<scopes, decls, propagates, allIdentifiers, bubbledVariables, changes, error>>
astVars == <<errorNode, ast, nodeScope, refToScope, options, pc>>
loopVars == <<outermostLoop, functions>>
classVars == <<classesTranspiler, classNodes>>
unitVars == <<fnNodes, nameByToken, thisUsing>>
histVars == <<uniqueLog, bubbleLog>>
vars == <<coreVars, astVars, loopVars, classVars, unitVars, histVars>>

(***************************************************************************)
(* Bounds of the model.                                                    *)
(***************************************************************************)
MaxUniqueRequests == 3
MaxBubbleRequests == 3
NumScopes == 5
MaxBlocks == 1

(***************************************************************************)
(* Small helpers on sequences.                                             *)
(***************************************************************************)
Last(s) == s[Len(s)]

RemoveAt(s, k) == SubSeq(s, 1, k - 1) \o SubSeq(s, k + 1, Len(s))

\* Array.prototype.splice(i, 1) on array s (JavaScript index i; a negative
\* index counts from the end, clamped at 0); the array that is left.
Splice1(s, i) ==
    LET n == Len(s)
        at == IF i < 0 THEN (IF n + i < 0 THEN 0 ELSE n + i) ELSE (IF i > n THEN n ELSE i)
    IN IF at >= n THEN s ELSE RemoveAt(s, at + 1)

(***************************************************************************)
(* lib/scope: the Scope object.                                            *)
(***************************************************************************)
RECURSIVE closestHoistScopeOf(_, _)
closestHoistScopeOf(sc, s) ==
    IF sc[s].kind = "hoist" THEN s ELSE closestHoistScopeOf(sc, sc[s].parent)

closestHoistScope(s) == closestHoistScopeOf(scopes, s)

\* The scopes from s outward to the root, s first.
RECURSIVE ScopeChainOf(_, _)
ScopeChainOf(sc, s) == IF s = 0 THEN <<>> ELSE <<s>> \o ScopeChainOf(sc, sc[s].parent)

ChainSet(s) == {ScopeChainOf(scopes, s)[k] : k \in 1..Len(ScopeChainOf(scopes, s))}

\* Scope.lookup(name): the nearest scope from s outward declaring name, 0 if none.
RECURSIVE lookupIn(_, _, _, _)
lookupIn(sc, d, s, name) ==
    IF s = 0 THEN 0
    ELSE IF name \in DOMAIN d[s] THEN s
    ELSE lookupIn(sc, d, sc[s].parent, name)

lookup(s, name) == lookupIn(scopes, decls, s, name)

\* Scope.lookup marks the name as propagated in every hoist scope it passes
\* without finding it.
RECURSIVE lookupPropagates(_, _, _, _, _)
lookupPropagates(sc, d, p, s, name) ==
    IF s = 0 THEN p
    ELSE IF name \in DOMAIN d[s] THEN p
    ELSE lookupPropagates(sc, d,
            IF sc[s].kind = "hoist" THEN [p EXCEPT ![s] = @ \cup {name}] ELSE p,
            sc[s].parent, name)

\* Scope.add(name, kind, node, referableFromPos): fun, param and var go to the
\* closest hoist scope, let, const and caught stay in the scope itself.
\* from is -1 when no position is given.
addTarget(sc, s, kind) ==
    IF kind \in {"fun", "param", "var"} THEN closestHoistScopeOf(sc, s) ELSE s

add(sc, d, s, name, kind, node, from) ==
    LET t == addTarget(sc, s, kind)
    IN [d EXCEPT ![t] = [n \in DOMAIN d[t] \cup {name} |->
            IF n = name THEN [kind |-> kind, node |-> node, from |-> from] ELSE d[t][n]]]

\* Scope.getKind(name) and Scope.getFromPos(name)
getKind(d, s, name) == d[s][name].kind

getFromPos(d, s, name) == d[s][name].from

\* Scope.hasFunctionScopeBetween(outer): walking from the scope outward, is a
\* function's scope met before outer.
RECURSIVE hasFunctionScopeBetween(_, _, _)
hasFunctionScopeBetween(sc, s, outer) ==
    IF s = 0 \/ s = outer THEN FALSE
    ELSE IF sc[s].nodeType \in {"FunctionDeclaration", "FunctionExpression", "ArrowFunctionExpression"}
    THEN TRUE
    ELSE hasFunctionScopeBetween(sc, sc[s].parent, outer)

(***************************************************************************)
(* core.unique(name, newVariable, additionalFilter)                        *)
(***************************************************************************)
genName(name, cnt) == name \o "$" \o ToString(cnt)

\* The for loop of unique: the first cnt whose generated name is free.
RECURSIVE uniqueCnt(_, _, _, _)
uniqueCnt(ids, name, additionalFilter, cnt) ==
    IF genName(name, cnt) \notin ids /\ genName(name, cnt) \notin additionalFilter
    THEN cnt
    ELSE uniqueCnt(ids, name, additionalFilter, cnt + 1)

\* The precondition unique asserts.
uniqueAssert(ids, name, newVariable) == newVariable \/ name \in ids

\* A mutation of uniqueReserve: the generated name is never reserved.
uniqueReserveNever(ids, gen, newVariable) == ids

\* The registry after unique returned gen.
uniqueReserve(ids, gen, newVariable) == IF newVariable THEN ids \cup {gen} ELSE ids

\* unique: the name returned and the registry afterwards.
unique(ids, name, newVariable, additionalFilter) ==
    LET gen == genName(name, uniqueCnt(ids, name, additionalFilter, 0))
    IN [name |-> gen, ids |-> uniqueReserve(ids, gen, newVariable)]

(***************************************************************************)
(* core.findParentForScopes(scope, ...)                                    *)
(***************************************************************************)
\* The cap on the rounds of the ancestor walk.
MaxCounterCap == 1000

\* The first loop: every argument becomes its closest hoist scope.
hoistAll(args) == [k \in 1..Len(args) |-> closestHoistScope(args[k])]

\* The body of the for loop of the ancestor walk from JavaScript index i on.
\* st.arr is the scopes array, st.len is scopesLength, st.path the scopes
\* whose $__path is this call's uniquePathId, st.parentScope the result (0
\* while there is none).
RECURSIVE walkFor(_, _)
walkFor(st, i) ==
    IF i >= st.len THEN st
    ELSE LET scope0 == st.arr[i + 1]
             hoistScope == closestHoistScope(scope0)
             scope == IF hoistScope = scope0 THEN scopes[scope0].parent ELSE scope0
         IN IF hoistScope \in st.path
            THEN [st EXCEPT !.parentScope = hoistScope]
            ELSE IF scope # 0
            THEN walkFor([st EXCEPT !.path = @ \cup {hoistScope}, !.arr[i + 1] = scope], i + 1)
            ELSE \* scopesLength--; i--; scopes.splice(i, 1); then the loop's ++i
                 walkFor([st EXCEPT !.len = @ - 1, !.arr = Splice1(@, i - 1)], i)

\* The while loop of the ancestor walk.
RECURSIVE walkWhile(_)
walkWhile(st) ==
    IF st.parentScope = 0 /\ st.len # 0 /\ st.maxCounter + 1 < MaxCounterCap
    THEN walkWhile(walkFor([st EXCEPT !.maxCounter = @ + 1], 0))
    ELSE st

\* findParentForScopes: the scope returned, or 0 when assert(!!parentScope)
\* fails.  (The test scopesLength.length === 1 compares undefined with 1 and
\* never holds.)
findParentForScopes(args) ==
    LET hs == hoistAll(args)
        programs == {k \in 1..Len(hs) : scopes[hs[k]].nodeType = "Program"}
    IN IF programs # {}
       THEN hs[CHOOSE k \in programs : \A j \in programs : k <= j]
       ELSE walkWhile([arr |-> hs, len |-> Len(hs), path |-> {},
                       parentScope |-> 0, maxCounter |-> 0]).parentScope

(***************************************************************************)
(* core.bubbledVariableDeclaration and its helpers                         *)
(***************************************************************************)
\* __isBubbledVariableDeclaration: is there a record under this logical name
\* with this initializer.
isBubbledVariableDeclaration(bv, variableName, variableInitValue) ==
    variableName \in DOMAIN bv /\ bv[variableName].value = variableInitValue

\* The text of the installation edit.
installString(identifier, variableInitValue, isFunction) ==
    IF isFunction
    THEN "function " \o identifier \o variableInitValue
    ELSE "var " \o identifier \o " = " \o variableInitValue \o ";"

\* The installation edit: alter.insert(__getNodeBegin(scope.node), text, options).
\* options is the edit's own changesOptions object: inactive is its flag.
\* The text of an edit is kept as the sequence of the statements it is
\* concatenated from.
installEdit(scope, identifier, variableInitValue, isFunction) ==
    [op |-> "insert", start |-> scopes[scope].begin, end |-> scopes[scope].begin,
     str |-> <<installString(identifier, variableInitValue, isFunction)>>,
     inactive |-> FALSE, scope |-> scope]

\* Record st (ids, decls, bv, changes) after __createBubbledVariableDeclaration
\* with no existing record: mint the identifier, store the record under the
\* logical name, declare the identifier in the scope, install the edit.
createBubbled(st, scope, variableName, variableInitValue, isFunction) ==
    LET u == unique(st.ids, variableName, TRUE, {})
        rec == [name |-> u.name, value |-> variableInitValue, isFunction |-> isFunction,
                scope |-> scope, changesOptions |-> Len(st.changes) + 1]
    IN [ids |-> u.ids,
        decls |-> add(scopes, st.decls, scope, u.name, "var", 0, -1),
        bv |-> [n \in DOMAIN st.bv \cup {variableName} |->
                    IF n = variableName THEN rec ELSE st.bv[n]],
        changes |-> Append(st.changes, installEdit(scope, u.name, variableInitValue, isFunction)),
        result |-> u.name,
        minted |-> TRUE]

\* Record st after __rebaseBubbledVariableDeclaration: the latest edit is
\* flagged inactive, the record moves to the scope and gets a new edit.
rebaseBubbled(st, scope, variableName) ==
    LET old == st.bv[variableName]
        rec == [old EXCEPT !.scope = scope, !.changesOptions = Len(st.changes) + 1]
        deact == [st.changes EXCEPT ![old.changesOptions].inactive = TRUE]
    IN [ids |-> st.ids,
        decls |-> add(scopes, st.decls, scope, old.name, "var", 0, -1),
        bv |-> [st.bv EXCEPT ![variableName] = rec],
        changes |-> Append(deact, installEdit(scope, old.name, old.value, old.isFunction)),
        result |-> old.name,
        minted |-> FALSE]

(***************************************************************************)
(* The unit of the name allocator: a scope tree as the scope pass leaves   *)
(* it, and requests against it.                                            *)
(***************************************************************************)
\* The logical names and initializers of the helpers the passes request.
LogicalNames == {"DP", "SLICE"}
InitValues == {"Object.defineProperty", "Array.prototype.slice"}

\* Base labels of unique() requests and the names a unit's scope and
\* reference passes may have put into the registry before them.
BaseLabels == {"a", "b"}
SourceNames == {"a", "b", "a$0", "a$1", "b$0"}

\* Scope i's ancestors-or-self under parent vector p (Program is 1).
RECURSIVE UpFrom(_, _)
UpFrom(p, i) == IF i = 1 THEN {1} ELSE {i} \cup UpFrom(p, p[i])

\* Parent vectors of the scopes below Program, numbered in creation
\* (pre-order) order: a scope's parent is on the path of the scope before it.
ParentVectors ==
    {p \in [2..NumScopes -> 1..NumScopes] :
        \A i \in 2..NumScopes : p[i] < i /\ (i > 2 => p[i] \in UpFrom(p, i - 1))}

KindVectors ==
    {k \in [2..NumScopes -> {"hoist", "block"}] :
        Cardinality({i \in 2..NumScopes : k[i] = "block"}) <= MaxBlocks}

\* The scope arena of a tree: Program, the scopes below it, and last the
\* ambient top scope createTopScope links above Program.
TreeScopes(p, k) ==
    [i \in 1..NumScopes + 1 |->
        IF i = 1
        THEN [kind |-> "hoist", nodeType |-> "Program", node |-> 0,
              parent |-> NumScopes + 1, begin |-> 0]
        ELSE IF i = NumScopes + 1
        THEN [kind |-> "hoist", nodeType |-> "", node |-> 0, parent |-> 0, begin |-> 0]
        ELSE [kind |-> k[i],
              nodeType |-> IF k[i] = "hoist" THEN "FunctionDeclaration" ELSE "BlockStatement",
              node |-> 0, parent |-> p[i], begin |-> 10 * i + 1]]

EmptyDecls(n) == [i \in 1..n |-> <<>>]
EmptySets(n) == [i \in 1..n |-> {}]

\* A unit with only the Program scope and the top scope above it.
ProgramOnlyScopes ==
    << [kind |-> "hoist", nodeType |-> "Program", node |-> 0, parent |-> 2, begin |-> 0],
       [kind |-> "hoist", nodeType |-> "", node |-> 0, parent |-> 0, begin |-> 0] >>

\* classesTranspiler.reset(): the fields of the class-lowering engine.  ""
\* and <<>> stand for null, "null" for the null of a field holding a
\* boolean or a map.
ResetClassesTranspiler ==
    [currentClassMethodsStatic |-> "null",
     currentClassName |-> "",
     superRefName |-> "",
     protoRefName |-> "",
     staticRefName |-> "",
     currentAccessors |-> "null",
     currentStaticAccessors |-> "null",
     currentFirstStaticAccessor |-> <<>>,
     staticPropertiesCount |-> 0,
     protoPropertiesCount |-> 0,
     DP |-> "",
     MIXIN |-> ""]

\* The requests of these units come from passes over a tree the allocator
\* never reads: no tree, default options, the loop tracker as reset() left it.
NoTree ==
    /\ errorNode = 0
    /\ ast = <<>>
    /\ nodeScope = <<>>
    /\ refToScope = <<>>
    /\ options = [disallowUnknownReferences |-> FALSE, globals |-> <<>>]
    /\ pc = "lowering"
    /\ outermostLoop = 0
    /\ functions = <<>>
    /\ classesTranspiler = ResetClassesTranspiler
    /\ classNodes = <<>>
    /\ fnNodes = <<>>
    /\ nameByToken = <<>>
    /\ thisUsing = {}

InitUnique ==
    /\ scopes = ProgramOnlyScopes
    /\ decls = EmptyDecls(2)
    /\ propagates = EmptySets(2)
    /\ allIdentifiers \in SUBSET SourceNames
    /\ bubbledVariables = <<>>
    /\ changes = <<>>
    /\ error = ""
    /\ uniqueLog = <<>>
    /\ bubbleLog = <<>>
    /\ NoTree

InitBubble ==
    /\ \E p \in ParentVectors, k \in KindVectors : scopes = TreeScopes(p, k)
    /\ decls = EmptyDecls(NumScopes + 1)
    /\ propagates = EmptySets(NumScopes + 1)
    /\ allIdentifiers = {}
    /\ bubbledVariables = <<>>
    /\ changes = <<>>
    /\ error = ""
    /\ uniqueLog = <<>>
    /\ bubbleLog = <<>>
    /\ NoTree

\* One entry of uniqueLog: the request, the name returned and whether that
\* name was absent from the registry when it was returned.
UniqueEntry(ids, name, newVariable, gen) ==
    [base |-> name, newVariable |-> newVariable, result |-> gen, absent |-> gen \notin ids]

\* A call of core.unique by a pass.
UniqueRequest(name, newVariable) ==
    /\ error = ""
    /\ Len(uniqueLog) < MaxUniqueRequests
    /\ IF uniqueAssert(allIdentifiers, name, newVariable)
       THEN LET u == unique(allIdentifiers, name, newVariable, {})
            IN /\ allIdentifiers' = u.ids
               /\ uniqueLog' = Append(uniqueLog,
                                  UniqueEntry(allIdentifiers, name, newVariable, u.name))
               /\ error' = error
       ELSE /\ error' = "AssertionError"
            /\ UNCHANGED <<allIdentifiers, uniqueLog>>
    /\ UNCHANGED <<scopes, decls, propagates, bubbledVariables, changes, bubbleLog>>
    /\ UNCHANGED <<astVars, loopVars, classVars, unitVars>>

\* The outcome of bubbledVariableDeclaration(scope, variableName,
\* variableInitValue, isFunction) in state cs (ids, decls, bv, changes,
\* propagates): the fields that change, the identifier returned ("" when an
\* assertion fails).
bubbledVariableDeclarationIn(cs, scope0, variableName, variableInitValue, isFunction) ==
    LET scope == closestHoistScope(scope0)
        st == [ids |-> cs.ids, decls |-> cs.decls, bv |-> cs.bv, changes |-> cs.changes]
        same == [ids |-> cs.ids, decls |-> cs.decls, bv |-> cs.bv,
                 changes |-> cs.changes, minted |-> FALSE]
    IN IF isBubbledVariableDeclaration(cs.bv, variableName, variableInitValue)
       THEN LET bubbledVariable == cs.bv[variableName]
                prop == lookupPropagates(scopes, cs.decls, cs.propagates, scope,
                                         bubbledVariable.name)
            IN IF lookupIn(scopes, cs.decls, scope, bubbledVariable.name) # 0
               THEN same @@ [result |-> bubbledVariable.name, propagates |-> prop, failed |-> FALSE]
               ELSE LET target == findParentForScopes(<<scope, bubbledVariable.scope>>)
                    IN IF target = 0
                       THEN same @@ [result |-> "", propagates |-> prop, failed |-> TRUE]
                       ELSE rebaseBubbled(st, target, variableName)
                                @@ [propagates |-> prop, failed |-> FALSE]
       ELSE createBubbled(st, scope, variableName, variableInitValue, isFunction)
                @@ [propagates |-> cs.propagates, failed |-> FALSE]

\* The same, on the state of the unit.
bubbledVariableDeclaration(scope0, variableName, variableInitValue, isFunction) ==
    bubbledVariableDeclarationIn(
        [ids |-> allIdentifiers, decls |-> decls, bv |-> bubbledVariables,
         changes |-> changes, propagates |-> propagates],
        scope0, variableName, variableInitValue, isFunction)

\* The state after a call of bubbledVariableDeclaration with outcome r.
ApplyBubbled(r) ==
    /\ allIdentifiers' = r.ids
    /\ decls' = r.decls
    /\ propagates' = r.propagates
    /\ bubbledVariables' = r.bv
    /\ changes' = r.changes
    /\ error' = IF r.failed THEN "AssertionError" ELSE error

\* A request of a pass for a shared helper.
BubbledRequest(scope0, variableName, variableInitValue, isFunction) ==
    /\ error = ""
    /\ Len(bubbleLog) < MaxBubbleRequests
    /\ LET r == bubbledVariableDeclaration(scope0, variableName, variableInitValue, isFunction)
       IN /\ ApplyBubbled(r)
          /\ uniqueLog' = IF r.minted
                          THEN Append(uniqueLog,
                                   UniqueEntry(allIdentifiers, variableName, TRUE, r.result))
                          ELSE uniqueLog
          /\ bubbleLog' = Append(bubbleLog,
                [requester |-> closestHoistScope(scope0), logical |-> variableName,
                 value |-> variableInitValue, result |-> r.result,
                 edit |-> IF Len(r.changes) > Len(changes) THEN Len(r.changes) ELSE 0])
    /\ UNCHANGED <<scopes, astVars, loopVars, classVars, unitVars>>

NextUnique == \E name \in BaseLabels, newVariable \in BOOLEAN : UniqueRequest(name, newVariable)

NextBubble ==
    \E scope0 \in 1..NumScopes, variableName \in LogicalNames, value \in InitValues :
        BubbledRequest(scope0, variableName, value, FALSE)

SpecUnique == InitUnique /\ [][NextUnique]_vars

SpecBubble == InitBubble /\ [][NextBubble]_vars

(***************************************************************************)
(* Claims about the name allocator.                                        *)
(***************************************************************************)
\* The edits installed for helper (logical name, initializer) that are not
\* flagged inactive.
ActiveInstallations(logical, value) ==
    {e \in 1..Len(changes) :
        /\ \E i \in 1..Len(bubbleLog) :
              /\ bubbleLog[i].logical = logical
              /\ bubbleLog[i].value = value
              /\ bubbleLog[i].edit = e
        /\ ~changes[e].inactive}

HoistAncestors(s) == {a \in ChainSet(s) : scopes[a].kind = "hoist"}

\* The hoist scopes that are ancestor-or-self of every scope of S.
CommonHoistAncestors(S) == {a \in 1..Len(scopes) : \A s \in S : a \in HoistAncestors(s)}

IsLowestCommonHoistAncestor(a, S) ==
    /\ a \in CommonHoistAncestors(S)
    /\ \A c \in CommonHoistAncestors(S) : c \in ChainSet(a)

\* C1 as stated: every identifier unique() returns was absent from the
\* registry when it was returned, and no two requests return the same
\* identifier.
C1_NoTwoRequestsAgree ==
    \A i, j \in 1..Len(uniqueLog) :
        /\ uniqueLog[i].absent
        /\ (i < j => uniqueLog[i].result # uniqueLog[j].result)

\* C1 as amended: every identifier unique() returns was absent from the
\* registry when it was returned, and an identifier returned by a declaring
\* request (isDeclaration true) is returned by no later request.
C1_DeclaredNeverReturnedAgain ==
    \A i, j \in 1..Len(uniqueLog) :
        /\ uniqueLog[i].absent
        /\ (i < j /\ uniqueLog[i].newVariable => uniqueLog[i].result # uniqueLog[j].result)

\* Two declaring requests for one base label, the second after a name with
\* that label and a suffix was already in the registry.
C1_Witness ==
    /\ Len(uniqueLog) >= 2
    /\ uniqueLog[1].newVariable /\ uniqueLog[2].newVariable
    /\ uniqueLog[1].base = uniqueLog[2].base
    /\ uniqueLog[1].result # genName(uniqueLog[1].base, 0)

\* C2: every (logical name, initializer) pair has at most one live
\* BubbledVariable record and at most one installation edit that is still
\* active.
C2_OneActiveInstallation ==
    \A logical \in LogicalNames, value \in InitValues :
        /\ Cardinality({n \in DOMAIN bubbledVariables :
                n = logical /\ bubbledVariables[n].value = value}) <= 1
        /\ Cardinality(ActiveInstallations(logical, value)) <= 1

\* C3: after every request that returned, the scope holding a helper's
\* active installation is a hoist scope, an ancestor-or-self of every scope
\* that requested that helper, and the lowest such scope.
C3_InstalledAtLowestCommonAncestor ==
    error = "" =>
        \A n \in DOMAIN bubbledVariables :
            LET r == bubbledVariables[n]
                requesters == {bubbleLog[i].requester : i \in
                    {k \in 1..Len(bubbleLog) :
                        /\ bubbleLog[k].logical = n
                        /\ bubbleLog[k].value = r.value
                        /\ bubbleLog[k].result = r.name}}
                installed == changes[r.changesOptions].scope
            IN /\ ~changes[r.changesOptions].inactive
               /\ IsLowestCommonHoistAncestor(installed, requesters)

\* C4: every request for the same (logical name, initializer) returns the
\* identifier the first such request returned.
C4_SameIdentifier ==
    \A i, j \in 1..Len(bubbleLog) :
        (/\ i < j
         /\ bubbleLog[i].logical = bubbleLog[j].logical
         /\ bubbleLog[i].value = bubbleLog[j].value
         /\ bubbleLog[i].result # ""
         /\ bubbleLog[j].result # "")
        => bubbleLog[i].result = bubbleLog[j].result

(***************************************************************************)
(* The parsed tree.  A node has a type, its parent ($parent, 0 for the     *)
(* Program), the property of the parent that holds it (slot), and a name   *)
(* (Identifier) or kind (VariableDeclaration).  The arena is in traversal  *)
(* order, which is source order: node n starts at 2n and ends after its    *)
(* last descendant.                                                        *)
(***************************************************************************)
MaxSymbols == 4

Node(type, parent, slot, name, kind) ==
    [type |-> type, parent |-> parent, slot |-> slot, name |-> name, kind |-> kind,
     computed |-> FALSE]

RECURSIVE IsAncestorOrSelf(_, _, _)
IsAncestorOrSelf(tree, a, n) ==
    IF n = 0 THEN FALSE
    ELSE IF n = a THEN TRUE
    ELSE IsAncestorOrSelf(tree, a, tree[n].parent)

LastDescendant(tree, n) ==
    CHOOSE m \in n..Len(tree) :
        /\ IsAncestorOrSelf(tree, n, m)
        /\ \A k \in (m + 1)..Len(tree) : ~IsAncestorOrSelf(tree, n, k)

\* node.range[0] and node.range[1]
rangeStart(tree, n) == 2 * n
rangeEnd(tree, n) == 2 * LastDescendant(tree, n) + 1

\* The children of node n held by property slot, in order.
Children(tree, n, slot) ==
    {c \in 1..Len(tree) : tree[c].parent = n /\ tree[c].slot = slot}

\* A tree is written as a sequence of symbols: a statement, the opening of
\* a construct with a body, or "end", which closes the innermost open body
\* (bodies still open at the end are closed there).  v is the variable the
\* statements declare and use.
\* st.nodes: the arena so far; st.stack: the open bodies, each with the
\* nodes that follow its body in the source (trailer); st.ok: no "end"
\* without an open body.
SymbolNodes(sym, v, P, b) ==
    CASE sym = "use" ->
            << Node("ExpressionStatement", P, "body", "", ""),
               Node("Identifier", b + 1, "expression", v, "") >>
      [] sym = "usecall" ->
            << Node("ExpressionStatement", P, "body", "", ""),
               Node("CallExpression", b + 1, "expression", "", ""),
               Node("Identifier", b + 2, "callee", "use", ""),
               Node("Identifier", b + 2, "arguments", v, "") >>
      [] sym = "ret" ->
            << Node("ReturnStatement", P, "body", "", ""),
               Node("Identifier", b + 1, "argument", v, "") >>
      [] sym = "callf" ->
            << Node("ExpressionStatement", P, "body", "", ""),
               Node("CallExpression", b + 1, "expression", "", ""),
               Node("Identifier", b + 2, "callee", "f", "") >>
      [] sym \in {"let", "const", "var"} ->
            << Node("VariableDeclaration", P, "body", "", sym),
               Node("VariableDeclarator", b + 1, "declarations", "", ""),
               Node("Identifier", b + 2, "id", v, ""),
               Node("Literal", b + 2, "init", "", "") >>
      [] sym \in {"letself", "constself"} ->
            << Node("VariableDeclaration", P, "body", "", IF sym = "letself" THEN "let" ELSE "const"),
               Node("VariableDeclarator", b + 1, "declarations", "", ""),
               Node("Identifier", b + 2, "id", v, ""),
               Node("Identifier", b + 2, "init", v, "") >>
      [] sym = "assign" ->
            << Node("ExpressionStatement", P, "body", "", ""),
               Node("AssignmentExpression", b + 1, "expression", "", ""),
               Node("Identifier", b + 2, "left", v, ""),
               Node("Literal", b + 2, "right", "", "") >>
      [] sym = "update" ->
            << Node("ExpressionStatement", P, "body", "", ""),
               Node("UpdateExpression", b + 1, "expression", "", ""),
               Node("Identifier", b + 2, "argument", v, "") >>
      [] sym = "readinto" ->
            << Node("ExpressionStatement", P, "body", "", ""),
               Node("AssignmentExpression", b + 1, "expression", "", ""),
               Node("Identifier", b + 2, "left", "y", ""),
               Node("Identifier", b + 2, "right", v, "") >>
      [] sym = "class" ->
            << Node("ClassDeclaration", P, "body", "", ""),
               Node("Identifier", b + 1, "id", "A", ""),
               Node("ClassBody", b + 1, "body", "", "") >>
      [] sym = "fnrest" ->
            << Node("FunctionDeclaration", P, "body", "", ""),
               Node("Identifier", b + 1, "id", "f", ""),
               Node("Identifier", b + 1, "params", v, ""),
               Node("Identifier", b + 1, "rest", "r", ""),
               Node("BlockStatement", b + 1, "body", "", "") >>
      [] sym = "try" ->
            << Node("TryStatement", P, "body", "", ""),
               Node("BlockStatement", b + 1, "block", "", ""),
               Node("CatchClause", b + 1, "handlers", "", ""),
               Node("Identifier", b + 3, "param", "e", ""),
               Node("BlockStatement", b + 3, "body", "", "") >>
      [] sym = "forinlet" ->
            << Node("ForInStatement", P, "body", "", ""),
               Node("VariableDeclaration", b + 1, "left", "", "let"),
               Node("VariableDeclarator", b + 2, "declarations", "", ""),
               Node("Identifier", b + 3, "id", v, ""),
               Node("Identifier", b + 1, "right", "o", ""),
               Node("BlockStatement", b + 1, "body", "", "") >>
      [] sym = "this" ->
            << Node("ExpressionStatement", P, "body", "", ""),
               Node("ThisExpression", b + 1, "expression", "", "") >>
      [] sym = "arrow" ->
            << Node("ExpressionStatement", P, "body", "", ""),
               Node("ArrowFunctionExpression", b + 1, "expression", "", ""),
               Node("BlockStatement", b + 2, "body", "", "") >>
      [] sym = "arrowthis" ->
            << Node("ExpressionStatement", P, "body", "", ""),
               Node("ArrowFunctionExpression", b + 1, "expression", "", ""),
               Node("ThisExpression", b + 2, "body", "", "") >>
      [] sym = "arrow2this" ->
            << Node("ExpressionStatement", P, "body", "", ""),
               Node("ArrowFunctionExpression", b + 1, "expression", "", ""),
               Node("ArrowFunctionExpression", b + 2, "body", "", ""),
               Node("ThisExpression", b + 3, "body", "", "") >>
      [] sym = "blk" ->
            << Node("BlockStatement", P, "body", "", "") >>
      [] sym = "fn" ->
            << Node("FunctionDeclaration", P, "body", "", ""),
               Node("Identifier", b + 1, "id", "f", ""),
               Node("BlockStatement", b + 1, "body", "", "") >>
      [] sym = "fnp" ->
            << Node("FunctionDeclaration", P, "body", "", ""),
               Node("Identifier", b + 1, "id", "f", ""),
               Node("Identifier", b + 1, "params", v, ""),
               Node("BlockStatement", b + 1, "body", "", "") >>
      [] sym = "callfn" ->
            << Node("ExpressionStatement", P, "body", "", ""),
               Node("CallExpression", b + 1, "expression", "", ""),
               Node("Identifier", b + 2, "callee", "later", ""),
               Node("FunctionExpression", b + 2, "arguments", "", ""),
               Node("BlockStatement", b + 4, "body", "", "") >>
      [] sym = "iife" ->
            << Node("ExpressionStatement", P, "body", "", ""),
               Node("CallExpression", b + 1, "expression", "", ""),
               Node("FunctionExpression", b + 2, "callee", "", ""),
               Node("Identifier", b + 3, "params", v, ""),
               Node("BlockStatement", b + 3, "body", "", "") >>
      [] sym = "forlet" ->
            << Node("ForStatement", P, "body", "", ""),
               Node("VariableDeclaration", b + 1, "init", "", "let"),
               Node("VariableDeclarator", b + 2, "declarations", "", ""),
               Node("Identifier", b + 3, "id", v, ""),
               Node("Literal", b + 3, "init", "", ""),
               Node("BinaryExpression", b + 1, "test", "", ""),
               Node("Identifier", b + 6, "left", v, ""),
               Node("Literal", b + 6, "right", "", ""),
               Node("UpdateExpression", b + 1, "update", "", ""),
               Node("Identifier", b + 9, "argument", v, ""),
               Node("BlockStatement", b + 1, "body", "", "") >>
      [] sym = "while" ->
            << Node("WhileStatement", P, "body", "", ""),
               Node("Literal", b + 1, "test", "", ""),
               Node("BlockStatement", b + 1, "body", "", "") >>

OpeningSymbols ==
    {"blk", "fn", "fnp", "fnrest", "callfn", "iife", "forlet", "forinlet", "while", "try", "arrow"}

\* What follows the body a symbol opens: the argument of the call for iife.
SymbolTrailer(sym, v, b) ==
    IF sym = "iife" THEN << Node("Identifier", b + 2, "arguments", v, "") >> ELSE <<>>

BuildSymbol(st, sym, v) ==
    IF sym = "end"
    THEN IF Len(st.stack) <= 1
         THEN [st EXCEPT !.ok = FALSE]
         ELSE [st EXCEPT !.nodes = @ \o Last(st.stack).trailer,
                         !.stack = SubSeq(@, 1, Len(@) - 1)]
    ELSE LET b == Len(st.nodes)
             new == SymbolNodes(sym, v, Last(st.stack).node, b)
         IN [st EXCEPT !.nodes = @ \o new,
                       !.stack = IF sym \in OpeningSymbols
                                 THEN Append(@, [node |-> b + Len(new),
                                                 trailer |-> SymbolTrailer(sym, v, b)])
                                 ELSE @]

RECURSIVE BuildAll(_, _, _)
BuildAll(st, syms, v) ==
    IF syms = <<>>
    THEN IF Len(st.stack) > 1
         THEN CHOOSE r \in {BuildAll(s1, syms, v) : s1 \in {BuildSymbol(st, "end", v)}} : TRUE
         ELSE st
    ELSE CHOOSE r \in {BuildAll(s1, Tail(syms), v) :
                           s1 \in {BuildSymbol(st, Head(syms), v)}} : TRUE

Build(syms, v) ==
    BuildAll([nodes |-> << Node("Program", 0, "", "", "") >>,
              stack |-> << [node |-> 1, trailer |-> <<>>] >>, ok |-> TRUE], syms, v)

\* The symbol sequences of at most MaxSymbols symbols over an alphabet that
\* close only what is open and do not end with a redundant "end".
RECURSIVE Balanced(_, _)
Balanced(syms, depth) ==
    IF syms = <<>> THEN TRUE
    ELSE IF Head(syms) = "end" THEN depth > 0 /\ Balanced(Tail(syms), depth - 1)
    ELSE Balanced(Tail(syms), IF Head(syms) \in OpeningSymbols THEN depth + 1 ELSE depth)

SymbolSeqs(alphabet) ==
    UNION {{q \in [1..n -> alphabet] : Balanced(q, 0) /\ q[n] # "end"} : n \in 1..MaxSymbols}

(***************************************************************************)
(* Predicates on nodes (part_001:15-77)                                    *)
(***************************************************************************)
isConstLet(kind) == kind = "const" \/ kind = "let"

isVarConstLet(kind) == kind = "var" \/ kind = "const" \/ kind = "let"

\* isFunction of a value whose type property is type.
isFunctionType(type) ==
    type = "FunctionDeclaration" \/ type = "FunctionExpression" \/ type = "ArrowFunctionExpression"

isFunction(tree, n) == isFunctionType(tree[n].type)

\* The type property of a string value: undefined, which is no node type.
TypeOfString(str) == "undefined"

\* isNonFunctionBlock hands isFunction the parent's type, a string.
isNonFunctionBlock(tree, n) ==
    tree[n].type = "BlockStatement" /\ ~isFunctionType(TypeOfString(tree[tree[n].parent].type))

isForWithConstLet(tree, n) ==
    /\ tree[n].type = "ForStatement"
    /\ \E c \in Children(tree, n, "init") :
          tree[c].type = "VariableDeclaration" /\ isConstLet(tree[c].kind)

isForInWithConstLet(tree, n) ==
    /\ tree[n].type = "ForInStatement"
    /\ \E c \in Children(tree, n, "left") :
          tree[c].type = "VariableDeclaration" /\ isConstLet(tree[c].kind)

isLoop(tree, n) ==
    tree[n].type \in {"ForStatement", "ForInStatement", "WhileStatement", "DoWhileStatement"}

\* isReference(node), given node.$refToScope (r: -1 unset, 0 null).
isReference(tree, r, n) ==
    LET parent == tree[n].parent
        parentType == IF parent = 0 THEN "" ELSE tree[parent].type
        slot == tree[n].slot
    IN \/ r[n] > 0
       \/ /\ tree[n].type = "Identifier"
          /\ ~(parentType = "VariableDeclarator" /\ slot = "id")
          /\ ~(parentType = "MemberExpression" /\ ~tree[parent].computed /\ slot = "property")
          /\ ~(parentType = "Property" /\ slot = "key")
          /\ ~(parentType = "LabeledStatement" /\ slot = "label")
          /\ ~(parentType = "CatchClause" /\ slot = "param")
          /\ ~(isFunctionType(parentType) /\ slot = "id")
          /\ ~(isFunctionType(parentType) /\ slot = "params")

\* isLvalue without the update expressions.
isLvalueOfAssignment(tree, r, n) ==
    /\ isReference(tree, r, n)
    /\ tree[tree[n].parent].type = "AssignmentExpression" /\ tree[n].slot = "left"

isLvalue(tree, r, n) ==
    /\ isReference(tree, r, n)
    /\ \/ tree[tree[n].parent].type = "AssignmentExpression" /\ tree[n].slot = "left"
       \/ tree[tree[n].parent].type = "UpdateExpression" /\ tree[n].slot = "argument"

(***************************************************************************)
(* core.pre: the scope pass, the top scope, the reference pass and the     *)
(* const-write pass.                                                       *)
(***************************************************************************)
\* A finite set of numbers as an increasing sequence.
RECURSIVE SortedSeq(_)
SortedSeq(S) ==
    IF S = {} THEN <<>>
    ELSE LET m == CHOOSE x \in S : \A y \in S : x <= y
         IN <<m>> \o SortedSeq(S \ {m})

ChildrenSeq(tree, n, slot) == SortedSeq(Children(tree, n, slot))

\* __getNodeBegin(node) for the node of a hoist scope.
getNodeBegin(tree, n) ==
    IF tree[n].type = "Program" THEN 0
    ELSE LET body == ChildrenSeq(tree, n, "body")
         IN IF body = <<>> THEN 0
            ELSE IF tree[n].type = "ArrowFunctionExpression" THEN rangeStart(tree, body[1])
            ELSE rangeStart(tree, body[1]) + (IF isFunction(tree, n) THEN 1 ELSE 0)

\* new Scope({kind, node, parent}) as node n's $scope.  sp is the state of
\* the scope pass: scopes, decls, propagates, nodeScope, and conflict, which
\* records that a let or const was declared twice in one scope.
newScope(sp, tree, n, kind, parent) ==
    [sp EXCEPT !.scopes = Append(@, [kind |-> kind, nodeType |-> tree[n].type, node |-> n,
                                     parent |-> parent, begin |-> getNodeBegin(tree, n)]),
               !.decls = Append(@, <<>>),
               !.propagates = Append(@, {}),
               !.nodeScope[n] = Len(sp.scopes) + 1]

\* scope.add(...) in the scope pass.
addDecl(sp, s, name, kind, node, from) ==
    LET t == addTarget(sp.scopes, s, kind)
        clash == /\ name \in DOMAIN sp.decls[t]
                 /\ (isConstLet(sp.decls[t][name].kind) \/ isConstLet(kind))
    IN [sp EXCEPT !.decls = add(sp.scopes, @, s, name, kind, node, from),
                  !.conflict = @ \/ clash]

\* params.forEach(addParamToScope) for Identifier parameters.
RECURSIVE addParams(_, _, _, _)
addParams(sp, tree, s, params) ==
    IF params = <<>> THEN sp
    ELSE CHOOSE r \in {addParams(sp1, tree, s, Tail(params)) :
                sp1 \in {addDecl(sp, s, tree[Head(params)].name, "param", Head(params), -1)}} :
            TRUE

\* declarations.forEach(... addVariableToScope(declarator.id, kind, declarator))
\* for Identifier targets: visible from the end of the declared identifier.
RECURSIVE addDeclarators(_, _, _, _, _)
addDeclarators(sp, tree, s, kind, declarators) ==
    IF declarators = <<>> THEN sp
    ELSE LET id == ChildrenSeq(tree, Head(declarators), "id")[1]
         IN CHOOSE r \in {addDeclarators(sp1, tree, s, kind, Tail(declarators)) :
                 sp1 \in {addDecl(sp, s, tree[id].name, kind, id, rangeEnd(tree, id))}} :
                TRUE

\* The do-while loop of the ThisExpression branch of createScopes: mark the
\* arrow function's scope, go on while the function's parent node is an
\* arrow function.
RECURSIVE markThisUsingChain(_, _, _)
markThisUsingChain(sp, tree, thisFunctionScope) ==
    LET marked == [sp EXCEPT !.thisUsing = @ \cup {thisFunctionScope}]
        functionNode == tree[sp.scopes[thisFunctionScope].node].parent
    IN IF functionNode # 0 /\ tree[functionNode].type = "ArrowFunctionExpression"
       THEN markThisUsingChain(marked, tree,
                               closestHoistScopeOf(sp.scopes, sp.nodeScope[functionNode]))
       ELSE marked

\* createScopes(node, parent)
createScopes(sp, tree, n) ==
    LET parent == tree[n].parent
        inherited == IF parent # 0 THEN sp.nodeScope[parent] ELSE 0
        sp0 == [sp EXCEPT !.nodeScope[n] = inherited]
    IN IF tree[n].type = "Program"
       THEN newScope(sp0, tree, n, "hoist", 0)
       ELSE IF isFunction(tree, n)
       THEN LET id == ChildrenSeq(tree, n, "id")
                sp1 == IF id # <<>>
                       THEN addDecl(sp0, inherited, tree[id[1]].name, "fun", id[1], -1)
                       ELSE sp0
                sp2 == newScope(sp1, tree, n, "hoist", inherited)
            IN addParams(sp2, tree, sp2.nodeScope[n], ChildrenSeq(tree, n, "params"))
       ELSE IF tree[n].type = "VariableDeclaration"
       THEN addDeclarators(sp0, tree, inherited, tree[n].kind,
                           ChildrenSeq(tree, n, "declarations"))
       ELSE IF isForWithConstLet(tree, n) \/ isForInWithConstLet(tree, n)
       THEN newScope(sp0, tree, n, "block", inherited)
       ELSE IF isNonFunctionBlock(tree, n)
       THEN newScope(sp0, tree, n, "block", inherited)
       ELSE IF tree[n].type = "CatchClause"
       THEN LET identifier == ChildrenSeq(tree, n, "param")[1]
                sp1 == newScope(sp0, tree, n, "catch-block", inherited)
                sp2 == addDecl(sp1, sp1.nodeScope[n], tree[identifier].name, "caught",
                               identifier, -1)
            IN [sp2 EXCEPT !.propagates[closestHoistScopeOf(sp2.scopes, sp2.nodeScope[n])] =
                               @ \cup {tree[identifier].name}]
       ELSE IF tree[n].type = "ThisExpression"
       THEN LET thisFunctionScope == closestHoistScopeOf(sp0.scopes, inherited)
            IN IF sp0.scopes[thisFunctionScope].nodeType = "ArrowFunctionExpression"
               THEN markThisUsingChain(sp0, tree, thisFunctionScope)
               ELSE sp0
       ELSE sp0

\* traverse(ast, {pre: createScopes})
RECURSIVE createScopesFrom(_, _, _)
createScopesFrom(sp, tree, n) ==
    IF n > Len(tree) THEN sp
    ELSE CHOOSE r \in {createScopesFrom(sp1, tree, n + 1) :
                           sp1 \in {createScopes(sp, tree, n)}} : TRUE

\* The ambient names createTopScope injects before the presets and the
\* globals option: name -> writeable.
complementary == [n \in {"undefined", "Infinity", "console"} |-> FALSE]

\* inject(obj) into top scope t
RECURSIVE inject(_, _, _, _)
inject(sc, d, t, obj) ==
    IF DOMAIN obj = {} THEN d
    ELSE LET name == CHOOSE x \in DOMAIN obj : TRUE
             kind == IF obj[name] THEN "var" ELSE "const"
             rest == [x \in DOMAIN obj \ {name} |-> obj[x]]
         IN CHOOSE r \in {inject(sc, d1, t, rest) :
                              d1 \in {add(sc, d, t, name, kind, 0, -1)}} : TRUE

\* createTopScope(programScope, environments, globals): the scope pass state
\* with the top scope added and linked above the Program scope.
createTopScope(sp, programScope, globals) ==
    LET t == Len(sp.scopes) + 1
        sc == [Append(sp.scopes, [kind |-> "hoist", nodeType |-> "", node |-> 0,
                                  parent |-> 0, begin |-> 0])
                  EXCEPT ![programScope].parent = t]
        d == inject(sc, inject(sc, Append(sp.decls, <<>>), t, complementary), t, globals)
    IN [sp EXCEPT !.scopes = sc, !.decls = d, !.propagates = Append(@, {})]

\* All declaration names of all scopes.
declaredNames(d) == UNION {DOMAIN d[s] : s \in 1..Len(d)}

\* A mutation of useBeforeDeclaration: the function boundary is not looked at.
useBeforeDeclarationNoBoundary(sc, d, tree, nscope, n, scope) ==
    /\ scope # 0
    /\ isConstLet(getKind(d, scope, tree[n].name))
    /\ rangeStart(tree, n) < getFromPos(d, scope, tree[n].name)

\* The check of setupReferences for reference n resolved to scope: a let or
\* const referenced before the position it is allowed from, with no function
\* scope between.
useBeforeDeclaration(sc, d, tree, nscope, n, scope) ==
    /\ scope # 0
    /\ isConstLet(getKind(d, scope, tree[n].name))
    /\ rangeStart(tree, n) < getFromPos(d, scope, tree[n].name)
    /\ ~hasFunctionScopeBetween(sc, nscope[n], scope)

\* setupReferences(node).  rp is the state of the reference pass: ids,
\* propagates, refToScope, error, errorNode.
setupReferences(rp, sc, d, tree, nscope, opts, n) ==
    IF ~isReference(tree, rp.refToScope, n) THEN rp
    ELSE LET name == tree[n].name
             scope == lookupIn(sc, d, nscope[n], name)
             rp1 == [rp EXCEPT !.ids = @ \cup {name},
                               !.propagates = lookupPropagates(sc, d, @, nscope[n], name)]
         IN IF scope = 0 /\ opts.disallowUnknownReferences
            THEN [rp1 EXCEPT !.error = "UnknownReferenceError", !.errorNode = n]
            ELSE IF useBeforeDeclaration(sc, d, tree, nscope, n, scope)
            THEN [rp1 EXCEPT !.error = "UseBeforeDeclarationError", !.errorNode = n]
            ELSE [rp1 EXCEPT !.refToScope[n] = scope]

\* traverse(ast, {pre: setupReferences}); the first error ends the unit.
RECURSIVE setupReferencesFrom(_, _, _, _, _, _, _)
setupReferencesFrom(rp, sc, d, tree, nscope, opts, n) ==
    IF n > Len(tree) \/ rp.error # "" THEN rp
    ELSE CHOOSE r \in {setupReferencesFrom(rp1, sc, d, tree, nscope, opts, n + 1) :
                           rp1 \in {setupReferences(rp, sc, d, tree, nscope, opts, n)}} : TRUE

\* detectConstAssignment(node)
detectConstAssignment(rp, sc, d, tree, nscope, n) ==
    IF ~isLvalue(tree, rp.refToScope, n) THEN rp
    ELSE LET scope == lookupIn(sc, d, nscope[n], tree[n].name)
             rp1 == [rp EXCEPT !.propagates =
                        lookupPropagates(sc, d, @, nscope[n], tree[n].name)]
         IN IF scope # 0 /\ getKind(d, scope, tree[n].name) = "const"
            THEN [rp1 EXCEPT !.error = "ConstReassignmentError", !.errorNode = n]
            ELSE rp1

RECURSIVE detectConstAssignmentFrom(_, _, _, _, _, _)
detectConstAssignmentFrom(rp, sc, d, tree, nscope, n) ==
    IF n > Len(tree) \/ rp.error # "" THEN rp
    ELSE CHOOSE r \in {detectConstAssignmentFrom(rp1, sc, d, tree, nscope, n + 1) :
                           rp1 \in {detectConstAssignment(rp, sc, d, tree, nscope, n)}} : TRUE

\* The scope pass and createTopScope on a tree.
scopePass(tree, opts) ==
    LET sp == createScopesFrom([scopes |-> <<>>, decls |-> <<>>, propagates |-> <<>>,
                                nodeScope |-> [n \in 1..Len(tree) |-> 0],
                                conflict |-> FALSE, thisUsing |-> {}], tree, 1)
    IN createTopScope(sp, sp.nodeScope[1], opts.globals)

\* The reference pass and the const-write pass over the scopes sp.
referencePasses(sp, tree, opts, ids) ==
    LET rp0 == [ids |-> ids \cup declaredNames(sp.decls), propagates |-> sp.propagates,
                refToScope |-> [n \in 1..Len(tree) |-> -1], error |-> "", errorNode |-> 0]
    IN CHOOSE r \in {detectConstAssignmentFrom(rp1, sp.scopes, sp.decls, tree, sp.nodeScope, 1) :
                        rp1 \in {setupReferencesFrom(rp0, sp.scopes, sp.decls, tree,
                                                     sp.nodeScope, opts, 1)}} : TRUE

\* core.pre(ast): the state of the unit after it.
pre(tree, opts, ids) ==
    CHOOSE r \in UNION {{[scopes |-> sp.scopes, decls |-> sp.decls,
                           nodeScope |-> sp.nodeScope, propagates |-> rp.propagates,
                           thisUsing |-> sp.thisUsing,
                           ids |-> rp.ids, refToScope |-> rp.refToScope,
                           error |-> rp.error, errorNode |-> rp.errorNode] :
                              rp \in {referencePasses(sp, tree, opts, ids)}} :
                         sp \in {scopePass(tree, opts)}} : TRUE

\* A tree Scope.add accepts: no let or const declared twice in one scope.
WellFormed(tree) ==
    ~createScopesFrom([scopes |-> <<>>, decls |-> <<>>, propagates |-> <<>>,
                       nodeScope |-> [n \in 1..Len(tree) |-> 0],
                       conflict |-> FALSE, thisUsing |-> {}], tree, 1).conflict

\* The unit before its first pass: the tree is parsed, setup() has run.
InitTree(trees, optionSets) ==
    /\ ast \in trees
    /\ options \in optionSets
    /\ scopes = <<>>
    /\ decls = <<>>
    /\ propagates = <<>>
    /\ allIdentifiers = {}
    /\ bubbledVariables = <<>>
    /\ changes = <<>>
    /\ error = ""
    /\ errorNode = 0
    /\ nodeScope = [n \in 1..Len(ast) |-> 0]
    /\ refToScope = [n \in 1..Len(ast) |-> -1]
    /\ pc = "parsed"
    /\ outermostLoop = 0
    /\ functions = <<>>
    /\ classesTranspiler = ResetClassesTranspiler
    /\ classNodes = <<>>
    /\ fnNodes = <<>>
    /\ nameByToken = <<>>
    /\ thisUsing = {}
    /\ uniqueLog = <<>>
    /\ bubbleLog = <<>>

\* core.pre(ast)
Pre ==
    /\ pc = "parsed"
    /\ \E r \in {pre(ast, options, allIdentifiers)} :
          /\ scopes' = r.scopes
          /\ decls' = r.decls
          /\ nodeScope' = r.nodeScope
          /\ propagates' = r.propagates
          /\ allIdentifiers' = r.ids
          /\ refToScope' = r.refToScope
          /\ thisUsing' = r.thisUsing
          /\ error' = r.error
          /\ errorNode' = r.errorNode
          /\ pc' = IF r.error = "" THEN "resolved" ELSE "failed"
    /\ UNCHANGED <<bubbledVariables, changes, ast, options, loopVars, classVars, histVars>>
    /\ UNCHANGED <<fnNodes, nameByToken>>

(***************************************************************************)
(* The unit of the reference pass: declarations and uses of x at the top,  *)
(* in blocks and in functions.                                             *)
(***************************************************************************)
RefSymbols == {"use", "let", "const", "var", "letself", "blk", "fn", "end"}

\* function f(){ return x; } let x = 1; f();
ClosureBeforeLet == Build(<<"fn", "ret", "end", "let", "callf">>, "x").nodes

RefTrees ==
    {t \in {Build(q, "x").nodes : q \in SymbolSeqs(RefSymbols)} \cup {ClosureBeforeLet} :
        WellFormed(t)}

NoGlobals == <<>>

RefOptions ==
    {[disallowUnknownReferences |-> u, globals |-> NoGlobals] : u \in BOOLEAN}

InitRefs == InitTree(RefTrees, RefOptions)

NextRefs == Pre

SpecRefs == InitRefs /\ [][NextRefs]_vars

(***************************************************************************)
(* Properties of the reference pass                                        *)
(***************************************************************************)
\* The use-sites of the tree: the identifiers the reference pass resolves.
UseSite(n) == isReference(ast, [k \in 1..Len(ast) |-> -1], n)

\* The reference pass reached use-site n: no earlier use-site ended the unit.
Visited(n) ==
    /\ pc \in {"resolved", "failed"}
    /\ error \in {"", "ConstReassignmentError"} \/ n <= errorNode

Reported(n) == error = "UseBeforeDeclarationError" /\ errorNode = n

\* The use-sites inside the initializer of their own let or const declarator.
SelfInitialisers ==
    {n \in 1..Len(ast) :
        /\ UseSite(n)
        /\ ast[n].slot = "init"
        /\ ast[ast[n].parent].type = "VariableDeclarator"
        /\ isConstLet(ast[ast[ast[n].parent].parent].kind)
        /\ \E id \in Children(ast, ast[n].parent, "id") : ast[id].name = ast[n].name}

\* C5: a reference to a let or const name inside the initializer of its own
\* declarator, with no function boundary between (let x = x;), is reported
\* as UseBeforeDeclarationError.
C5_SelfInitialiserReported ==
    \A n \in SelfInitialisers : Visited(n) => Reported(n)

\* Is a function's scope on the way from scope s outward, before scope outer.
FunctionBetween(s, outer) ==
    \E t \in ChainSet(s) \ ChainSet(outer) :
        /\ scopes[t].node # 0
        /\ isFunctionType(ast[scopes[t].node].type)

\* The use resolves to a let or const that becomes visible after the use.
ResolvesToLaterConstLet(n) ==
    LET s == lookup(nodeScope[n], ast[n].name)
    IN /\ s # 0
       /\ decls[s][ast[n].name].kind \in {"let", "const"}
       /\ decls[s][ast[n].name].from > rangeStart(ast, n)

\* C6: the reference pass reports UseBeforeDeclarationError for a use-site
\* exactly when the use resolves to a let or const whose visible-from
\* position is greater than the start of the use and no function scope lies
\* between the using scope and the declaring scope.
C6_ReportedExactlyWhen ==
    \A n \in 1..Len(ast) :
        (UseSite(n) /\ Visited(n)) =>
            (Reported(n) <=>
                /\ ResolvesToLaterConstLet(n)
                /\ ~FunctionBetween(nodeScope[n], lookup(nodeScope[n], ast[n].name)))

\* A use inside a function nested in the declaring scope, textually before
\* the let it resolves to, passed the reference pass.
C6_Witness ==
    /\ pc = "resolved"
    /\ \E n \in 1..Len(ast) :
          /\ UseSite(n)
          /\ ResolvesToLaterConstLet(n)
          /\ FunctionBetween(nodeScope[n], lookup(nodeScope[n], ast[n].name))
          /\ refToScope[n] = lookup(nodeScope[n], ast[n].name)

(***************************************************************************)
(* The closure-in-loop checker: traverse(ast, {pre: detectLoopClosuresPre, *)
(* post: detectLoopClosuresPost})                                          *)
(***************************************************************************)
\* The while (n) walk of detectLoopClosuresPre from node n: TRUE when the
\* innermost tracked function fn is met or the tree is left, FALSE when the
\* outermost loop is met first.
RECURSIVE closureWalk(_, _, _, _)
closureWalk(tree, n, fn, loop) ==
    IF n = 0 THEN TRUE
    ELSE IF n = fn THEN TRUE
    ELSE IF n = loop THEN FALSE
    ELSE closureWalk(tree, tree[n].parent, fn, loop)

\* detectLoopClosuresPre(node).  lp is the state of the checker:
\* outermostLoop (0 for null), functions, error, errorNode.  Reading getKind
\* of a null $refToScope is a TypeError.
detectLoopClosuresPre(lp, tree, r, sc, d, n) ==
    LET loop == IF lp.outermostLoop = 0 /\ isLoop(tree, n) THEN n ELSE lp.outermostLoop
        fns == IF loop # 0 /\ isFunction(tree, n) THEN Append(lp.functions, n)
               ELSE lp.functions
        lp1 == [lp EXCEPT !.outermostLoop = loop, !.functions = fns]
    IN IF loop = 0 \/ fns = <<>> \/ ~isReference(tree, r, n) THEN lp1
       ELSE IF r[n] <= 0
       THEN [lp1 EXCEPT !.error = "TypeError", !.errorNode = n]
       ELSE IF ~isConstLet(getKind(d, r[n], tree[n].name)) THEN lp1
       ELSE IF closureWalk(tree, sc[r[n]].node, Last(fns), loop) THEN lp1
       ELSE [lp1 EXCEPT !.error = "UnsupportedLoopClosureError", !.errorNode = n]

\* detectLoopClosuresPost(node)
detectLoopClosuresPost(lp, tree, n) ==
    [lp EXCEPT !.outermostLoop = IF @ = n THEN 0 ELSE @,
               !.functions = IF isFunction(tree, n) /\ @ # <<>>
                             THEN SubSeq(@, 1, Len(@) - 1) ELSE @]

\* The post calls for the open nodes the traversal leaves before it enters a
\* child of node upTo (0: it leaves them all), innermost first.
RECURSIVE leaveTo(_, _, _, _)
leaveTo(lp, tree, open, upTo) ==
    IF open = <<>> \/ Last(open) = upTo THEN [lp |-> lp, open |-> open]
    ELSE CHOOSE r \in {leaveTo(lp1, tree, SubSeq(open, 1, Len(open) - 1), upTo) :
                          lp1 \in {detectLoopClosuresPost(lp, tree, Last(open))}} : TRUE

\* The traversal from node n on, open being the nodes entered and not yet
\* left; the first error ends it.
RECURSIVE detectLoopClosuresFrom(_, _, _, _, _, _, _)
detectLoopClosuresFrom(lp, tree, r, sc, d, open, n) ==
    IF lp.error # "" THEN lp
    ELSE IF n > Len(tree) THEN leaveTo(lp, tree, open, 0).lp
    ELSE CHOOSE res \in UNION {
            {detectLoopClosuresFrom(lp1, tree, r, sc, d, Append(left.open, n), n + 1) :
                lp1 \in {detectLoopClosuresPre(left.lp, tree, r, sc, d, n)}} :
            left \in {leaveTo(lp, tree, open, tree[n].parent)}} : TRUE

DetectLoopClosures ==
    /\ pc = "resolved"
    /\ \E lp \in {detectLoopClosuresFrom(
                     [outermostLoop |-> outermostLoop, functions |-> functions,
                      error |-> "", errorNode |-> 0],
                     ast, refToScope, scopes, decls, <<>>, 1)} :
          /\ outermostLoop' = lp.outermostLoop
          /\ functions' = lp.functions
          /\ error' = lp.error
          /\ errorNode' = lp.errorNode
          /\ pc' = IF lp.error = "" THEN "checked" ELSE "failed"
    /\ UNCHANGED <<scopes, decls, propagates, allIdentifiers, bubbledVariables, changes,
                   ast, nodeScope, refToScope, options, classVars, unitVars, histVars>>

(***************************************************************************)
(* The unit of the closure-in-loop checker: loops, functions handed to     *)
(* later(...), immediately called functions taking i, and uses of i.       *)
(***************************************************************************)
LoopSymbols == {"forlet", "while", "iife", "callfn", "usecall", "use", "let", "end"}

\* for (let i=0;i<3;i++){ later(function(){ use(i); }); }
ClosureInLoop == Build(<<"forlet", "callfn", "usecall">>, "i").nodes

\* for (let i=0;i<3;i++){ (function(i){ later(function(){ use(i); }); })(i); }
FunctionLocalCapture == Build(<<"forlet", "iife", "callfn", "usecall">>, "i").nodes

LoopTrees ==
    {t \in {Build(q, "i").nodes : q \in SymbolSeqs(LoopSymbols)} : WellFormed(t)}

\* The globals option naming the functions the unit calls, not writeable.
HelperGlobals == [n \in {"later", "use"} |-> FALSE]

LoopOptions ==
    {[disallowUnknownReferences |-> FALSE, globals |-> g] : g \in {NoGlobals, HelperGlobals}}

InitLoop == InitTree(LoopTrees, LoopOptions)

NextLoop == Pre \/ DetectLoopClosures

SpecLoop == InitLoop /\ [][NextLoop]_vars

\* The checker ran, or ended the unit.
LoopChecked ==
    \/ pc = "checked"
    \/ pc = "failed" /\ error \in {"UnsupportedLoopClosureError", "TypeError"}

\* The loops and the functions entered within the outermost loop that are
\* active at node n.
ActiveLoops(n) == {l \in 1..Len(ast) : isLoop(ast, l) /\ IsAncestorOrSelf(ast, l, n)}

OutermostActiveLoop(n) == CHOOSE l \in ActiveLoops(n) : \A k \in ActiveLoops(n) : l <= k

TrackedFunctions(n) ==
    {f \in 1..Len(ast) :
        /\ isFunction(ast, f)
        /\ IsAncestorOrSelf(ast, f, n)
        /\ IsAncestorOrSelf(ast, OutermostActiveLoop(n), f)}

InnermostTrackedFunction(n) ==
    CHOOSE f \in TrackedFunctions(n) : \A g \in TrackedFunctions(n) : g <= f

\* A reference to a let or const binding, inside a loop and inside a function
\* entered within that loop, that the checker reached.
CheckedCapture(n) ==
    /\ UseSite(n)
    /\ LoopChecked
    /\ pc = "checked" \/ n <= errorNode
    /\ ActiveLoops(n) # {}
    /\ TrackedFunctions(n) # {}
    /\ refToScope[n] > 0
    /\ isConstLet(decls[refToScope[n]][ast[n].name].kind)

\* Walking upward from the declaring scope's node, the outermost active loop
\* is met and the innermost tracked function is not met before it.
LoopMetFirst(n) ==
    LET from == scopes[refToScope[n]].node
        loop == OutermostActiveLoop(n)
        fn == InnermostTrackedFunction(n)
    IN /\ from # 0
       /\ IsAncestorOrSelf(ast, loop, from)
       /\ ~(IsAncestorOrSelf(ast, fn, from) /\ IsAncestorOrSelf(ast, loop, fn))

LoopClosureReported(n) == error = "UnsupportedLoopClosureError" /\ errorNode = n

\* The walk rule of C7 alone: a checked capture is reported exactly when the
\* loop is met first.
LoopWalkRule ==
    \A n \in 1..Len(ast) : CheckedCapture(n) => (LoopClosureReported(n) <=> LoopMetFirst(n))

\* C7: the closure-in-loop checker reports UnsupportedLoopClosureError for a
\* let/const capture exactly when the walk from the declaring scope's node
\* meets the outermost active loop before the innermost tracked function; the
\* unit with the closure directly in the loop body is rejected with that
\* error and the unit that passes i through an immediately called function
\* completes without any error.
C7_LoopClosureVerdicts ==
    /\ LoopWalkRule
    /\ (LoopChecked /\ ast = ClosureInLoop) => error = "UnsupportedLoopClosureError"
    /\ (LoopChecked /\ ast = FunctionLocalCapture) => error = ""

(***************************************************************************)
(* The class-lowering engine (classesTranspiler).                          *)
(*                                                                         *)
(* A class node: [name, superClass ("" for none, else the identifier),     *)
(* body: the members].  A member (MethodDefinition): [kind (constructor,   *)
(* method, get, set), static, computed, name (key.name), site], site being *)
(* the super reference in the member's function: [form (none, call: a      *)
(* super(...) call, memberCall: a super.p(...) call, member: super.p not   *)
(* called), args (none, one, spread), property].                           *)
(***************************************************************************)
MaxClasses == 2
MaxMembers == 2

\* v, and then F of the value of v.
Then(v, F(_)) == CHOOSE r \in {F(x) : x \in {v}} : TRUE

\* Array.prototype.join
RECURSIVE join(_, _)
join(strs, sep) ==
    IF strs = <<>> THEN ""
    ELSE IF Len(strs) = 1 THEN strs[1]
    ELSE strs[1] \o sep \o join(Tail(strs), sep)

\* The ranges of the nodes of the k-th class of the unit and of its j-th
\* member: the source positions the engine reads.
classRange0(k) == k * (30 + 30 * MaxMembers)
classRange1(k) == classRange0(k) + 29 + 30 * MaxMembers
bodyRange0(k) == classRange0(k) + 10
memberRange0(k, j) == classRange0(k) + 20 + 30 * (j - 1)
memberRange1(k, j) == memberRange0(k, j) + 29
isPrefixed(member) == member.static \/ member.kind \in {"get", "set"}
bracesRange0(k, j, member) == memberRange0(k, j) + (IF isPrefixed(member) THEN 2 ELSE 0)
bracesRange1(k, j, member) == bracesRange0(k, j, member) + 4
keyRange0(k, j, member) == bracesRange0(k, j, member) + (IF member.computed THEN 1 ELSE 0)
keyRange1(k, j, member) == keyRange0(k, j, member) + 2
valueRange1(k, j) == memberRange1(k, j)
superRange0(k, j) == memberRange0(k, j) + 10
superRange1(k, j) == superRange0(k, j) + 1
argumentRange0(k, j) == superRange0(k, j) + 6
callRange1(k, j) == superRange0(k, j) + 9

\* this.alter.replace / insert / insertBefore / insertAfter
alterReplace(st, start, end, str) ==
    [st EXCEPT !.changes = Append(@, [op |-> "replace", start |-> start, end |-> end,
                                     str |-> str, inactive |-> FALSE, scope |-> 0])]

alterInsert(st, op, pos, str) ==
    [st EXCEPT !.changes = Append(@, [op |-> op, start |-> pos, end |-> pos,
                                     str |-> str, inactive |-> FALSE, scope |-> 0])]

\* core.unique(name, true) in state st; the name is left in st.result.
coreUnique(st, name) ==
    Then(unique(st.ids, name, TRUE, {}),
         LAMBDA u : [st EXCEPT !.ids = u.ids, !.result = u.name])

\* core.bubbledVariableDeclaration(scope, name, value) in state st.
coreBubbled(st, scope, variableName, variableInitValue) ==
    Then(bubbledVariableDeclarationIn(
             [ids |-> st.ids, decls |-> st.decls, bv |-> st.bv, changes |-> st.changes,
              propagates |-> st.propagates], scope, variableName, variableInitValue, FALSE),
         LAMBDA r : [st EXCEPT !.ids = r.ids, !.decls = r.decls, !.bv = r.bv,
                               !.changes = r.changes, !.propagates = r.propagates,
                               !.result = r.result, !.failed = @ \/ r.failed])

defineProperty == "Object.defineProperty"

objectMixinBody(DP) ==
    "function(t,s){for(var p in s){if(s.hasOwnProperty(p)){" \o DP
        \o "(t,p,Object.getOwnPropertyDescriptor(s,p));}}return t}"

\* createNames(node)
createNames(st, scope) ==
    Then(IF st.ct.superRefName = ""
         THEN Then(coreUnique(st, "super"),
                   LAMBDA s : [s EXCEPT !.ct.superRefName = s.result])
         ELSE st, LAMBDA s1 :
    Then(IF s1.ct.protoRefName = ""
         THEN Then(coreUnique(s1, "$proto"),
                   LAMBDA s : [s EXCEPT !.ct.protoRefName = s.result])
         ELSE s1, LAMBDA s2 :
    Then(IF s2.ct.staticRefName = ""
         THEN Then(coreUnique(s2, "$static"),
                   LAMBDA s : [s EXCEPT !.ct.staticRefName = s.result])
         ELSE s2, LAMBDA s3 :
    Then(coreBubbled(s3, scope, "DP", defineProperty), LAMBDA s4 :
    Then(coreBubbled([s4 EXCEPT !.ct.DP = s4.result], scope, "MIXIN",
                     objectMixinBody(s4.result)), LAMBDA s5 :
         [s5 EXCEPT !.ct.MIXIN = s5.result])))))

\* One entry of the accessors string of createPrototypeString.
accessorString(accessor) ==
    accessor.key \o ": {"
        \o (IF accessor.get # "" THEN "\"get\": " \o accessor.get \o ", " ELSE "")
        \o (IF accessor.set # "" THEN "\"set\": " \o accessor.set \o ", " ELSE "")
        \o "\"configurable\": true, \"enumerable\": true}"

\* One entry of createStaticAccessorsDefinitionString.
staticAccessorString(accessor) ==
    accessor.key \o ": {"
        \o (IF accessor.get # "" THEN "\"get\": " \o accessor.get \o ", " ELSE "")
        \o (IF accessor.set # "" THEN "\"set\": " \o accessor.set ELSE "")
        \o ", \"configurable\": true, \"enumerable\": true}"

freezePrototypeString(DP, className) ==
    DP \o "(" \o className
       \o ", \"prototype\", {\"configurable\": false, \"enumerable\": false, \"writable\": false});"

\* A mutation of prototypeStatements: a class with neither superclass nor
\* accessors gets no freeze statement.
prototypeStatementsBare(DP, className, superName, accessors) ==
    LET accessorsString == join([i \in 1..Len(accessors) |-> accessorString(accessors[i])], ", ")
    IN IF superName # ""
       THEN << className \o ".prototype = Object.create(" \o superName \o ".prototype"
                  \o ", {" \o "\"constructor\": {\"value\": " \o className
                  \o ", \"configurable\": true, \"writable\": true}"
                  \o (IF accessorsString # "" THEN ", " \o accessorsString ELSE "")
                  \o " }" \o ");",
               freezePrototypeString(DP, className) >>
       ELSE IF accessorsString # ""
       THEN << "Object.defineProperties(" \o className \o ".prototype, {"
                  \o accessorsString \o "});",
               freezePrototypeString(DP, className) >>
       ELSE <<>>

\* The string createPrototypeString returns, as the statements it is made
\* of, DP being the name bubbledVariableDeclaration gave it.
prototypeStatements(DP, className, superName, accessors) ==
    LET accessorsString == join([i \in 1..Len(accessors) |-> accessorString(accessors[i])], ", ")
    IN IF superName # ""
       THEN << className \o ".prototype = Object.create(" \o superName \o ".prototype"
                  \o ", {" \o "\"constructor\": {\"value\": " \o className
                  \o ", \"configurable\": true, \"writable\": true}"
                  \o (IF accessorsString # "" THEN ", " \o accessorsString ELSE "")
                  \o " }" \o ");",
               freezePrototypeString(DP, className) >>
       ELSE IF accessorsString # ""
       THEN << "Object.defineProperties(" \o className \o ".prototype, {"
                  \o accessorsString \o "});",
               freezePrototypeString(DP, className) >>
       ELSE << freezePrototypeString(DP, className) >>

\* createPrototypeString(node, className, superName, accessors): the
\* statements are left in st.result.
createPrototypeString(st, scope, className, superName, accessors) ==
    Then(coreBubbled(st, scope, "DP", defineProperty), LAMBDA s :
         [s EXCEPT !.result = prototypeStatements(s.result, className, superName, accessors)])

\* createStaticAccessorsDefinitionString(node, recipientStr, accessors)
createStaticAccessorsDefinitionString(recipientStr, accessors) ==
    IF accessors = <<>> THEN ""
    ELSE ";Object.defineProperties(" \o recipientStr \o ", {"
            \o join([i \in 1..Len(accessors) |-> staticAccessorString(accessors[i])], ", ")
            \o "});"

\* accessors[name] || (accessors[name] = {}), then accessor[kind] = replacement;
\* a map is the sequence of its entries in insertion order.
setAccessor(accessors, name, kind, replacement) ==
    LET at == {i \in 1..Len(accessors) : accessors[i].key = name}
        withKey == IF at = {} THEN Append(accessors, [key |-> name, get |-> "", set |-> ""])
                   ELSE accessors
        i == CHOOSE x \in 1..Len(withKey) : withKey[x].key = name
    IN IF kind = "get" THEN [withKey EXCEPT ![i].get = replacement]
       ELSE [withKey EXCEPT ![i].set = replacement]

\* unwrapSuperCall(node, calleeNode, isStatic, property, isConstructor) for
\* the call at the site of member j of class k; calleeNode is the super
\* identifier.
unwrapSuperCall(st, k, j, site, isStatic, property, isConstructor) ==
    LET base == st.ct.superRefName \o (IF isStatic THEN "" ELSE ".prototype")
        hasSpreadElement == ~isStatic /\ site.args = "spread"
        unwrap == (~isStatic \/ isConstructor) /\ ~hasSpreadElement
        withProperty == base \o (IF property # "" THEN "." \o property ELSE "")
        changeStr == IF ~unwrap THEN base
                     ELSE IF site.args = "none" THEN withProperty \o ".call(this)"
                     ELSE withProperty \o ".call(this, "
        changesEnd == IF ~unwrap THEN superRange1(k, j)
                      ELSE IF site.args = "none" THEN callRange1(k, j)
                      ELSE argumentRange0(k, j)
    IN alterReplace(st, superRange0(k, j), changesEnd, <<changeStr>>)

\* astQuery.traverse(classConstructor, replaceClassConstructorSuper)
replaceClassConstructorSuper(st, k, j, site) ==
    IF site.form = "call" THEN unwrapSuperCall(st, k, j, site, TRUE, "", TRUE) ELSE st

\* astQuery.traverse(node.value, replaceClassMethodSuper)
replaceClassMethodSuper(st, k, j, site, isStatic) ==
    IF site.form = "memberCall"
    THEN unwrapSuperCall(st, k, j, site, isStatic, site.property, FALSE)
    ELSE st

\* astQuery.traverse(classConstructor, replaceClassMethodSuperInConstructor):
\* the super identifier is left alone when its parent is a CallExpression.
replaceClassMethodSuperInConstructor(st, k, j, site) ==
    IF site.form \in {"memberCall", "member"}
    THEN alterReplace(st, superRange0(k, j), superRange1(k, j), <<st.ct.superRefName>>)
    ELSE st

\* The computed accessor branch of replaceClassMethods.
replaceComputedAccessor(st, k, j, member) ==
    LET targetName == IF member.static THEN st.ct.currentClassName
                      ELSE st.ct.currentClassName \o ".prototype"
    IN Then(alterReplace(st, memberRange0(k, j), bracesRange0(k, j, member) + 1,
                         <<st.ct.DP \o "(" \o targetName \o ",">>), LAMBDA s1 :
       Then(alterReplace(s1, keyRange1(k, j, member), bracesRange1(k, j, member),
                         <<",{\"" \o member.kind \o "\":function">>), LAMBDA s2 :
            alterInsert(s2, "insertAfter", valueRange1(k, j),
                        <<",\"configurable\":true,\"enumerable\":true});">>)))

\* The non-computed accessor branch of replaceClassMethods.
replaceAccessor(st, k, j, member) ==
    Then([st EXCEPT !.ct.currentFirstStaticAccessor =
                        IF member.static /\ @ = <<>> THEN <<k, j>> ELSE @], LAMBDA s1 :
    Then(coreUnique(s1, (IF member.static THEN "static_" ELSE "") \o member.name
                            \o "$" \o member.kind), LAMBDA s2 :
         alterReplace(
             IF member.static
             THEN [s2 EXCEPT !.ct.currentStaticAccessors =
                                 setAccessor(@, member.name, member.kind, s2.result)]
             ELSE [s2 EXCEPT !.ct.currentAccessors =
                                 setAccessor(@, member.name, member.kind, s2.result)],
             memberRange0(k, j), keyRange1(k, j, member), <<"function " \o s2.result>>)))

\* The method branch of replaceClassMethods.
replaceMethod(st, k, j, member) ==
    LET keyRange0Of == IF member.computed THEN bracesRange0(k, j, member)
                       ELSE keyRange0(k, j, member)
        keyRange1Of == IF member.computed THEN bracesRange1(k, j, member)
                       ELSE keyRange1(k, j, member)
        targetName == IF member.static THEN st.ct.staticRefName ELSE st.ct.protoRefName
        str == <<targetName \o (IF member.computed THEN "" ELSE ".")>>
    IN Then(IF member.static
            THEN alterReplace([st EXCEPT !.ct.staticPropertiesCount = @ + 1],
                              memberRange0(k, j), keyRange0Of, str)
            ELSE alterInsert([st EXCEPT !.ct.protoPropertiesCount = @ + 1],
                             "insert", memberRange0(k, j), str), LAMBDA s1 :
       Then(alterInsert(s1, "insert", keyRange1Of, <<" = function">>), LAMBDA s2 :
            alterInsert(s2, "insertBefore", memberRange1(k, j), <<";">>)))

\* replaceClassMethods(node, astQuery) for member j of class k
replaceClassMethods(st, k, j, member) ==
    IF member.kind = "constructor" THEN st
    ELSE Then(IF member.kind \in {"get", "set"}
              THEN IF member.computed THEN replaceComputedAccessor(st, k, j, member)
                   ELSE replaceAccessor(st, k, j, member)
              ELSE replaceMethod(st, k, j, member), LAMBDA s1 :
              replaceClassMethodSuper(s1, k, j, member.site, member.static))

\* for ( i < classBodyNodesCount ) this.replaceClassMethods(classBodyNodes[i])
RECURSIVE replaceClassMethodsFrom(_, _, _, _)
replaceClassMethodsFrom(st, k, body, j) ==
    IF j > Len(body) THEN st
    ELSE Then(replaceClassMethods(st, k, j, body[j]), LAMBDA s1 :
              replaceClassMethodsFrom(s1, k, body, j + 1))

\* The index of the first member named constructor, 0 if there is none.
classConstructor(body) ==
    IF \E j \in 1..Len(body) : body[j].kind = "constructor"
    THEN CHOOSE j \in 1..Len(body) :
            /\ body[j].kind = "constructor"
            /\ \A i \in 1..(j - 1) : body[i].kind # "constructor"
    ELSE 0

\* The end of replaceClassBody, from theEndString on.  postfix is what
\* createPrototypeString returned, bodyBegin is insertAfterBodyBegin_string.
finishClassBody(st, k, node, bodyBegin, staticAccessorsDefinitionString) ==
    LET name == st.ct.currentClassName
        MIXIN == st.ct.MIXIN
        hasStatic == st.ct.staticPropertiesCount # 0
        hasProto == st.ct.protoPropertiesCount # 0
        tmpVars == (IF hasStatic THEN <<st.ct.staticRefName>> ELSE <<>>)
                       \o (IF hasProto THEN <<st.ct.protoRefName>> ELSE <<>>)
        theEndString ==
            (IF hasStatic THEN MIXIN \o "(" \o name \o "," \o st.ct.staticRefName \o ");" ELSE "")
            \o (IF hasProto
                THEN MIXIN \o "(" \o name \o ".prototype," \o st.ct.protoRefName \o ");" ELSE "")
            \o (IF tmpVars # <<>> THEN join(Append(tmpVars, "void 0"), "=") ELSE "")
        bodyBeginAll == IF tmpVars # <<>>
                        THEN Append(bodyBegin, "var " \o join(tmpVars, "={},") \o "={};")
                        ELSE bodyBegin
        classStr == "var " \o name \o " = (function("
                        \o (IF node.superClass # "" THEN st.ct.superRefName ELSE "") \o ")"
    IN Then(alterInsert(st, "insertBefore", bodyRange0(k) + 1, bodyBeginAll), LAMBDA s1 :
       Then(IF staticAccessorsDefinitionString # ""
            THEN alterInsert(s1, "insertAfter",
                     memberRange1(s1.ct.currentFirstStaticAccessor[1],
                                  s1.ct.currentFirstStaticAccessor[2]),
                     <<staticAccessorsDefinitionString>>)
            ELSE s1, LAMBDA s2 :
       Then(alterReplace(s2, classRange0(k), bodyRange0(k), <<classStr>>), LAMBDA s3 :
       Then(alterInsert(s3, "insert", classRange1(k) - 1,
                        <<theEndString \o ";return " \o name \o ";">>), LAMBDA s4 :
       Then(alterInsert(s4, "insert", classRange1(k),
                        <<")(" \o node.superClass \o ")" \o ";">>), LAMBDA s5 :
            [s5 EXCEPT !.ct.currentClassName = "",
                       !.ct.staticPropertiesCount = 0,
                       !.ct.protoPropertiesCount = 0])))))

\* replaceClassBody(node, astQuery) for a ClassDeclaration, the k-th class of
\* the unit, in scope scope; st is the state of the core and of the engine
\* (ct).
replaceClassBody(st, k, node, scope) ==
    LET body == node.body
        ctor == classConstructor(body)
        hasSuper == node.superClass # ""
    IN Then(createNames(st, scope), LAMBDA s1 :
       Then(alterReplace([s1 EXCEPT !.ct.currentClassName = node.name],
                         bodyRange0(k), bodyRange0(k) + 1, <<"{\"use strict\";">>), LAMBDA s2 :
       Then(replaceClassMethodsFrom(
                [s2 EXCEPT !.ct.currentAccessors = <<>>, !.ct.currentStaticAccessors = <<>>],
                k, body, 1), LAMBDA s3 :
       Then(createPrototypeString(s3, scope, node.name,
                IF hasSuper THEN s3.ct.superRefName ELSE "", s3.ct.currentAccessors),
            LAMBDA s4 :
       LET postfix == s4.result
           mixinSuper == IF hasSuper
                         THEN <<s4.ct.MIXIN \o "(" \o node.name \o ", "
                                   \o s4.ct.superRefName \o ");">>
                         ELSE <<>>
           staticString == createStaticAccessorsDefinitionString(
                               node.name, s4.ct.currentStaticAccessors)
       IN IF ctor # 0
          THEN Then(alterReplace(s4, keyRange0(k, ctor, body[ctor]),
                                 keyRange1(k, ctor, body[ctor]),
                                 <<"function " \o node.name>>), LAMBDA s5 :
               Then(alterInsert(s5, "insert", memberRange1(k, ctor), postfix), LAMBDA s6 :
               Then(replaceClassConstructorSuper(s6, k, ctor, body[ctor].site), LAMBDA s7 :
               Then(replaceClassMethodSuperInConstructor(s7, k, ctor, body[ctor].site),
                    LAMBDA s8 :
                    finishClassBody(s8, k, node, mixinSuper, staticString)))))
          ELSE finishClassBody(s4, k, node,
                   <<"function " \o node.name \o "() {"
                        \o (IF hasSuper THEN s4.ct.superRefName \o ".apply(this, arguments)"
                            ELSE "")
                        \o "}">> \o mixinSuper \o postfix,
                   staticString)))))

(***************************************************************************)
(* The unit of the class-lowering engine: class declarations at the top of *)
(* the program, lowered in source order.                                   *)
(***************************************************************************)
NoSite == [form |-> "none", args |-> "none", property |-> ""]

Site(form, args) == [form |-> form, args |-> args, property |-> "y"]

Member(kind, static, computed, name, site) ==
    [kind |-> kind, static |-> static, computed |-> computed, name |-> name, site |-> site]

\* constructor(..){ .. } with, under a superclass, super(), super(x) or
\* super.y in it.
Constructors(hasSuper) ==
    {Member("constructor", FALSE, FALSE, "constructor", site) :
        site \in {NoSite} \cup
                 (IF hasSuper
                  THEN {Site("call", "none"), Site("call", "one"), Site("member", "none")}
                  ELSE {})}

\* m(){ .. }, static m(){ .. } and [m](){ .. } with, under a superclass,
\* super.y(), super.y(x), super.y(...x) or super.y in it.
Methods(hasSuper) ==
    {Member("method", FALSE, FALSE, "m", site) :
        site \in {NoSite} \cup
                 (IF hasSuper
                  THEN {Site("memberCall", "none"), Site("memberCall", "one"),
                        Site("memberCall", "spread"), Site("member", "none")}
                  ELSE {})}
    \cup {Member("method", TRUE, FALSE, "m", site) :
        site \in {NoSite} \cup (IF hasSuper THEN {Site("memberCall", "one")} ELSE {})}
    \cup {Member("method", FALSE, TRUE, "m", NoSite)}

\* get p(){ .. }, set p(v){ .. }, static or not, and get [p](){ .. }.
Accessors ==
    {Member(kind, static, FALSE, "p", NoSite) : kind \in {"get", "set"}, static \in BOOLEAN}
    \cup {Member("get", static, TRUE, "p", NoSite) : static \in BOOLEAN}

Members(hasSuper) == Constructors(hasSuper) \cup Methods(hasSuper) \cup Accessors

\* The class bodies: at most MaxMembers members, at most one constructor.
ClassBodies(hasSuper) ==
    UNION {{b \in [1..n -> Members(hasSuper)] :
               Cardinality({j \in 1..n : b[j].kind = "constructor"}) <= 1} :
           n \in 0..MaxMembers}

ClassNames == <<"A", "B", "C", "D">>

\* What a class declaration can be: class .. { .. } or
\* class .. extends S { .. }.
ClassShapes ==
    {[superClass |-> "", body |-> body] : body \in ClassBodies(FALSE)}
    \cup {[superClass |-> "S", body |-> body] : body \in ClassBodies(TRUE)}

\* The k-th class declaration of the unit, of shape shape.
ClassDeclaration(k, shape) ==
    [name |-> ClassNames[k], superClass |-> shape.superClass, body |-> shape.body]

InitClass ==
    /\ scopes = ProgramOnlyScopes
    /\ decls = EmptyDecls(2)
    /\ propagates = EmptySets(2)
    /\ allIdentifiers = {"S", "m", "p", "x", "y", "super"}
    /\ bubbledVariables = <<>>
    /\ changes = <<>>
    /\ error = ""
    /\ uniqueLog = <<>>
    /\ bubbleLog = <<>>
    /\ NoTree

\* The class handler of the engine on the next class declaration of the unit.
ReplaceClassBody(node) ==
    /\ pc = "lowering"
    /\ error = ""
    /\ Len(classNodes) < MaxClasses
    /\ \E st \in {replaceClassBody(
                     [ids |-> allIdentifiers, decls |-> decls, bv |-> bubbledVariables,
                      changes |-> changes, propagates |-> propagates,
                      ct |-> classesTranspiler, result |-> "", failed |-> FALSE],
                     Len(classNodes) + 1, node, 1)} :
          /\ allIdentifiers' = st.ids
          /\ decls' = st.decls
          /\ bubbledVariables' = st.bv
          /\ changes' = st.changes
          /\ propagates' = st.propagates
          /\ classesTranspiler' = st.ct
          /\ error' = IF st.failed THEN "AssertionError" ELSE error
    /\ classNodes' = Append(classNodes, node)
    /\ UNCHANGED <<scopes, astVars, loopVars, unitVars, histVars>>

NextClass ==
    /\ Len(classNodes) < MaxClasses
    /\ \E shape \in ClassShapes :
          ReplaceClassBody(ClassDeclaration(Len(classNodes) + 1, shape))

SpecClass == InitClass /\ [][NextClass]_vars

(***************************************************************************)
(* Properties of the class-lowering engine                                 *)
(***************************************************************************)
StartsWith(text, prefix) ==
    Len(text) >= Len(prefix) /\ SubSeq(text, 1, Len(prefix)) = prefix

EndsWith(text, suffix) ==
    Len(text) >= Len(suffix) /\ SubSeq(text, Len(text) - Len(suffix) + 1, Len(text)) = suffix

\* The members of the k-th class with a super reference in their function.
SuperSites(k) ==
    {j \in 1..Len(classNodes[k].body) : classNodes[k].body[j].site.form # "none"}

\* The super token of member j of class k is replaced by an expression on
\* the superclass reference parameter.
SuperReplaced(k, j) ==
    \E i \in 1..Len(changes) :
        /\ changes[i].op = "replace"
        /\ changes[i].start <= superRange0(k, j)
        /\ changes[i].end >= superRange1(k, j)
        /\ Len(changes[i].str) = 1
        /\ StartsWith(changes[i].str[1], classesTranspiler.superRefName)

\* C8: after lowering a class that has a superclass, every super reference
\* inside its constructor and inside its method bodies (a super(...) call,
\* a super.m(...) call, a non-call member access such as super.y) has been
\* replaced by an expression on the superclass reference parameter, so no
\* super token remains in the output.
C8_NoSuperRemains ==
    \A k \in 1..Len(classNodes) :
        classNodes[k].superClass # "" => \A j \in SuperSites(k) : SuperReplaced(k, j)

\* The non-computed static accessors of the k-th class.
StaticAccessors(k) ==
    {j \in 1..Len(classNodes[k].body) :
        /\ classNodes[k].body[j].kind \in {"get", "set"}
        /\ classNodes[k].body[j].static
        /\ ~classNodes[k].body[j].computed}

FirstStaticAccessor(k) ==
    CHOOSE j \in StaticAccessors(k) : \A i \in StaticAccessors(k) : j <= i

\* The edits that insert the static-accessor installation of the k-th class.
StaticInstallations(k) ==
    {i \in 1..Len(changes) :
        /\ changes[i].op = "insertAfter"
        /\ Len(changes[i].str) = 1
        /\ StartsWith(changes[i].str[1],
                      ";Object.defineProperties(" \o classNodes[k].name \o ", {")}

\* C9: for any sequence of classes lowered in one unit, each class that has
\* a non-computed static accessor gets its static-accessor installation
\* inserted immediately after the end of the first static accessor of that
\* same class.
C9_AnchoredInOwnClass ==
    \A k \in 1..Len(classNodes) :
        StaticAccessors(k) # {} =>
            /\ StaticInstallations(k) # {}
            /\ \A i \in StaticInstallations(k) :
                  changes[i].start = memberRange1(k, FirstStaticAccessor(k))

\* Statement q of edit i makes the prototype slot of the k-th class
\* non-configurable and non-writable.
IsFreeze(k, i, q) ==
    EndsWith(changes[i].str[q],
             "(" \o classNodes[k].name
                 \o ", \"prototype\", {\"configurable\": false, \"enumerable\": false, \"writable\": false});")

FreezeStatements(k) ==
    {iq \in UNION {{<<i, q>> : q \in 1..Len(changes[i].str)} : i \in 1..Len(changes)} :
        IsFreeze(k, iq[1], iq[2])}

\* The non-computed instance accessors of the k-th class.
InstanceAccessors(k) ==
    {j \in 1..Len(classNodes[k].body) :
        /\ classNodes[k].body[j].kind \in {"get", "set"}
        /\ ~classNodes[k].body[j].static
        /\ ~classNodes[k].body[j].computed}

\* The statement that wires the prototype of the k-th class: the
\* Object.create assignment with a superclass, the batch accessor definition
\* with accessors only.
IsWiring(k, i, q) ==
    IF classNodes[k].superClass # ""
    THEN StartsWith(changes[i].str[q], classNodes[k].name \o ".prototype = Object.create(")
    ELSE StartsWith(changes[i].str[q],
                    "Object.defineProperties(" \o classNodes[k].name \o ".prototype, {")

HasWiring(k) == classNodes[k].superClass # "" \/ InstanceAccessors(k) # {}

\* C10: for every lowered class, whatever the combination of superclass,
\* non-computed accessors and explicit constructor, the emitted text holds
\* exactly one statement that makes the constructor's prototype slot
\* non-configurable and non-writable, and it comes after the class's
\* prototype wiring.
C10_OneFreezeAfterWiring ==
    \A k \in 1..Len(classNodes) :
        /\ Cardinality(FreezeStatements(k)) = 1
        /\ \A iq \in FreezeStatements(k) :
              /\ HasWiring(k) => \E q \in 1..(iq[2] - 1) : IsWiring(k, iq[1], q)
              /\ \A i \in 1..Len(changes) : \A q \in 1..Len(changes[i].str) :
                    IsWiring(k, i, q) => (i = iq[1] /\ q < iq[2])

\* A unit whose first class has a superclass, an accessor and an explicit
\* constructor and whose second class has none of them, both lowered.
C10_Witness ==
    /\ Len(classNodes) = 2
    /\ classNodes[1].superClass # ""
    /\ InstanceAccessors(1) # {}
    /\ classConstructor(classNodes[1].body) # 0
    /\ classNodes[2].superClass = ""
    /\ InstanceAccessors(2) = {}
    /\ classConstructor(classNodes[2].body) = 0
    /\ \A k \in 1..2 : Cardinality(FreezeStatements(k)) = 1

(***************************************************************************)
(* The parameter lowering pass (transpiler/functions.js).                  *)
(*                                                                         *)
(* A function node: [params, defaults, rest (<<>> for none, else <<the     *)
(* Identifier>>), bodyRange0 (body.range[0]), scope ($scope)].  A          *)
(* parameter: [type, name ("" for a pattern, which has no name), declares  *)
(* (the name a pattern binds), range0, range1]; a default: [type, name,    *)
(* src (its source text), range0, range1].                                 *)
(***************************************************************************)
MaxParams == 3

\* The methods of the core object.
coreMethods ==
    {"reset", "setup", "pre", "unique", "uniqueByToken", "createScopes", "createTopScope",
     "setupReferences", "detectLoopClosuresPre", "detectLoopClosuresPost",
     "detectConstAssignment", "getNodeVariableNames", "PropertyToString",
     "unwrapSpreadDeclaration", "unwrapNode", "definitionWithDefaultString",
     "defaultString", "__assignmentString", "__getNodeBegin", "getScopeTempVar",
     "setScopeTempVar", "findParentForScopes", "createScopeVariableDeclaration",
     "bubbledVariableDeclaration", "__isBubbledVariableDeclaration",
     "__createBubbledVariableDeclaration", "__rebaseBubbledVariableDeclaration"}

\* isFunction of functions.js: an arrow function is not one.
isPlainFunctionType(type) == type = "FunctionDeclaration" \/ type = "FunctionExpression"

\* A test that takes every parameter for a pattern.
isAnyParameter(param) == TRUE

isPattern(param) == param.type = "ObjectPattern" \/ param.type = "ArrayPattern"

\* destructuring.unwrapDestructuring("var", param, {Identifier value}) for
\* the pattern {x}.
unwrapDestructuring(param, value) ==
    "var " \o param.declares \o " = " \o value \o "." \o param.declares

\* core.defaultString(node, value)
defaultString(node, value) ==
    "if(" \o node.name \o " === void 0)" \o node.name \o " = " \o value

\* core.definitionWithDefaultString(node, donor, value)
definitionWithDefaultString(node, donor, value) ==
    node.name \o " = " \o donor \o ";" \o defaultString(node, value)

\* core.unwrapSpreadDeclaration(node, donor, fromIndex) in state st; the
\* string is left in st.result.
unwrapSpreadDeclaration(st, node, scope, donor, fromIndex) ==
    Then(coreBubbled(st, scope, "SLICE", "Array.prototype.slice"),
         LAMBDA s : [s EXCEPT !.result = node.name \o " = " \o s.result \o ".call("
                                            \o donor \o ", " \o ToString(fromIndex) \o ")"])

\* changes.push({start, end, str})
changesPush(st, start, end, str) ==
    [st EXCEPT !.changes = Append(@, [op |-> "push", start |-> start, end |-> end,
                                     str |-> <<str>>, inactive |-> FALSE, scope |-> 0])]

\* A failure that ends the handler: error(...) or a thrown exception.
abort(st, kind) == [st EXCEPT !.failed = TRUE, !.error = kind]

\* One round of the first loop: parameter i (from 0) without a default.
lowerPattern(st, node, i) ==
    LET param == node.params[i + 1]
        fnBodyStart == node.bodyRange0 + 1
        start == IF i > 0 THEN (node.params[i].range1 + 1) - 1 ELSE param.range0 - 0
    IN IF isPattern(param)
       THEN Then(coreUnique(st, "$D"), LAMBDA s :
                changesPush(
                    changesPush(s, fnBodyStart, fnBodyStart,
                                unwrapDestructuring(param, s.result) \o ";"),
                    start, param.range1,
                    (IF i = 0 THEN "" ELSE ", ") \o s.result))
       ELSE st

RECURSIVE lowerPatterns(_, _, _, _)
lowerPatterns(st, node, i, paramsCount) ==
    IF i >= paramsCount THEN st
    ELSE Then(lowerPattern(st, node, i),
              LAMBDA s : lowerPatterns(s, node, i + 1, paramsCount))

\* core.stringFromSrc(dflt): core has no such method, the call throws.
stringFromSrc(st, dflt) ==
    IF "stringFromSrc" \in coreMethods
    THEN [st EXCEPT !.result = dflt.src]
    ELSE abort(st, "TypeError")

\* One round of the second loop: default i (from 0).
lowerDefault(st, node, i) ==
    LET initialParamsCount == Len(node.params)
        defaultsCount == Len(node.defaults)
        paramIndex == (initialParamsCount - defaultsCount) + i
        param == node.params[paramIndex + 1]
        dflt == node.defaults[i + 1]
        hasPrevDflt == i > 0
        hasPrevParam == paramIndex > 0
        fnBodyStart == node.bodyRange0 + 1
        argument == "arguments[" \o ToString(paramIndex) \o "]"
        start == (IF hasPrevDflt THEN node.defaults[i].range1 + 1
                  ELSE IF hasPrevParam THEN node.params[paramIndex].range1 + 1
                  ELSE param.range0)
                 - (IF hasPrevParam THEN 1 ELSE 0)
    IN IF dflt.type = "Identifier" /\ dflt.name = param.name
       THEN abort(st, "SelfReferentialDefaultError")
       ELSE Then(stringFromSrc(st, dflt), LAMBDA s :
                IF s.failed THEN s
                ELSE changesPush(
                         changesPush(s, fnBodyStart, fnBodyStart,
                             IF isPattern(param)
                             THEN unwrapDestructuring(param,
                                      "(" \o argument \o " !== void 0 ? " \o argument
                                          \o " : " \o s.result \o ")") \o ";"
                             ELSE "var " \o definitionWithDefaultString(param, argument, s.result)
                                         \o ";"),
                         start, dflt.range1, ""))

RECURSIVE lowerDefaults(_, _, _)
lowerDefaults(st, node, i) ==
    IF i >= Len(node.defaults) \/ st.failed THEN st
    ELSE Then(lowerDefault(st, node, i), LAMBDA s : lowerDefaults(s, node, i + 1))

\* The last part of the handler: the rest parameter.
lowerRest(st, node) ==
    LET rest == node.rest[1]
        initialParamsCount == Len(node.params)
        fnBodyStart == node.bodyRange0 + 1
        hasLastParam == node.params # <<>>
        start == (IF node.defaults # <<>> THEN Last(node.defaults).range1 + 1
                  ELSE IF hasLastParam THEN Last(node.params).range1 + 1
                  ELSE rest.range0)
                 - (IF hasLastParam THEN 1 ELSE 3)
    IN Then(unwrapSpreadDeclaration(st, rest, node.scope, "arguments", initialParamsCount),
            LAMBDA s :
                IF s.failed THEN [s EXCEPT !.error = "AssertionError"]
                ELSE changesPush(
                         changesPush(
                             [s EXCEPT !.decls = add(scopes, @, closestHoistScope(node.scope),
                                                     rest.name, "var", 0, -1)],
                             fnBodyStart, fnBodyStart, "var " \o s.result \o ";"),
                         start, rest.range1, ""))

\* pre: functionDestructuringAndDefaultsAndRest(node)
functionDestructuringAndDefaultsAndRest(st, node) ==
    IF ~isPlainFunctionType(node.type) THEN st
    ELSE Then(lowerPatterns(st, node, 0, Len(node.params) - Len(node.defaults)), LAMBDA s1 :
         Then(lowerDefaults(s1, node, 0), LAMBDA s2 :
              IF s2.failed \/ node.rest = <<>> THEN s2 ELSE lowerRest(s2, node)))

(***************************************************************************)
(* The unit of the parameter lowering pass: one function declaration       *)
(*     function f(<slots>){}                                               *)
(* whose slots are plain parameters, patterns {x}, trailing parameters     *)
(* with a default and a rest parameter, separated by ", ".  Ranges are     *)
(* offsets into that text.                                                 *)
(***************************************************************************)
ParamNames == <<"a", "b", "c", "d">>
RestName == "r"
DefaultKinds == {"literal", "self", "other", "expression"}

\* shape: [patterns: which parameters are patterns, defaults: the kinds of
\* the defaults of the last parameters, rest: whether there is a rest].
FunctionShapes ==
    UNION {UNION {[patterns : [1..n -> BOOLEAN], defaults : [1..d -> DefaultKinds],
                   rest : BOOLEAN] : d \in 0..n} : n \in 0..MaxParams}

FunctionHead == "function f("

paramText(shape, i) ==
    IF shape.patterns[i] THEN "{" \o ParamNames[i] \o "}" ELSE ParamNames[i]

\* The default of parameter i, when it has one.
defaultIndex(shape, i) == i - (Len(shape.patterns) - Len(shape.defaults))

defaultText(shape, i) ==
    LET kind == shape.defaults[defaultIndex(shape, i)]
    IN CASE kind = "literal" -> "2"
         [] kind = "self" -> ParamNames[i]
         [] kind = "other" -> "z"
         [] kind = "expression" -> ParamNames[i] \o "+1"

slotTexts(shape) ==
    [i \in 1..Len(shape.patterns) |->
        paramText(shape, i)
            \o (IF defaultIndex(shape, i) >= 1 THEN " = " \o defaultText(shape, i) ELSE "")]
    \o (IF shape.rest THEN << "..." \o RestName >> ELSE <<>>)

RECURSIVE slotStart(_, _)
slotStart(texts, i) ==
    IF i = 1 THEN Len(FunctionHead) ELSE slotStart(texts, i - 1) + Len(texts[i - 1]) + 2

sourceText(shape) == FunctionHead \o join(slotTexts(shape), ", ") \o "){}"

FunctionNode(shape) ==
    LET texts == slotTexts(shape)
        n == Len(shape.patterns)
        param(i) ==
            [type |-> IF shape.patterns[i] THEN "ObjectPattern" ELSE "Identifier",
             name |-> IF shape.patterns[i] THEN "" ELSE ParamNames[i],
             declares |-> ParamNames[i],
             range0 |-> slotStart(texts, i),
             range1 |-> slotStart(texts, i) + Len(paramText(shape, i))]
        dflt(i) ==
            [type |-> CASE shape.defaults[defaultIndex(shape, i)] = "literal" -> "Literal"
                        [] shape.defaults[defaultIndex(shape, i)] = "expression" -> "BinaryExpression"
                        [] OTHER -> "Identifier",
             name |-> IF shape.defaults[defaultIndex(shape, i)] \in {"self", "other"}
                      THEN defaultText(shape, i) ELSE "",
             src |-> defaultText(shape, i),
             range0 |-> param(i).range1 + 3,
             range1 |-> param(i).range1 + 3 + Len(defaultText(shape, i))]
    IN [type |-> "FunctionDeclaration",
        params |-> [i \in 1..n |-> param(i)],
        defaults |-> [j \in 1..Len(shape.defaults) |-> dflt(j + n - Len(shape.defaults))],
        rest |-> IF shape.rest
                 THEN << [type |-> "Identifier", name |-> RestName,
                          range0 |-> slotStart(texts, n + 1) + 3,
                          range1 |-> slotStart(texts, n + 1) + 3 + Len(RestName)] >>
                 ELSE <<>>,
        bodyRange0 |-> Len(FunctionHead) + Len(join(texts, ", ")) + 1,
        scope |-> 2,
        src |-> sourceText(shape)]

FunctionNodes == {FunctionNode(shape) : shape \in FunctionShapes}

\* The scopes the scope pass built for the unit: Program, the function, and
\* the top scope; f in Program, the parameters in the function.
FunctionUnitScopes(node) ==
    << [kind |-> "hoist", nodeType |-> "Program", node |-> 0, parent |-> 3, begin |-> 0],
       [kind |-> "hoist", nodeType |-> node.type, node |-> 0, parent |-> 1,
        begin |-> node.bodyRange0 + 1],
       [kind |-> "hoist", nodeType |-> "", node |-> 0, parent |-> 0, begin |-> 0] >>

FunctionUnitDecls(node) ==
    << [name \in {"f"} |-> [kind |-> "fun", node |-> 0, from |-> -1]],
       [name \in {node.params[i].declares : i \in 1..Len(node.params)} |->
            [kind |-> "param", node |-> 0, from |-> -1]],
       <<>> >>

InitParams ==
    /\ fnNodes \in {<<node>> : node \in FunctionNodes}
    /\ scopes = FunctionUnitScopes(fnNodes[1])
    /\ decls = FunctionUnitDecls(fnNodes[1])
    /\ propagates = EmptySets(3)
    /\ allIdentifiers = {"f"}
                            \cup {fnNodes[1].params[i].declares : i \in 1..Len(fnNodes[1].params)}
    /\ bubbledVariables = <<>>
    /\ changes = <<>>
    /\ error = ""
    /\ errorNode = 0
    /\ ast = <<>>
    /\ nodeScope = <<>>
    /\ refToScope = <<>>
    /\ options = [disallowUnknownReferences |-> FALSE, globals |-> <<>>]
    /\ pc = "lowering"
    /\ outermostLoop = 0
    /\ functions = <<>>
    /\ classesTranspiler = ResetClassesTranspiler
    /\ classNodes = <<>>
    /\ nameByToken = <<>>
    /\ thisUsing = {}
    /\ uniqueLog = <<>>
    /\ bubbleLog = <<>>

\* The pre handler of the pass on the function of the unit.
FunctionDestructuringAndDefaultsAndRest ==
    /\ pc = "lowering"
    /\ fnNodes # <<>>
    /\ error = ""
    /\ \E st \in {functionDestructuringAndDefaultsAndRest(
                     [ids |-> allIdentifiers, decls |-> decls, bv |-> bubbledVariables,
                      changes |-> changes, propagates |-> propagates,
                      ct |-> classesTranspiler, result |-> "", failed |-> FALSE,
                      error |-> ""], fnNodes[1])} :
          /\ allIdentifiers' = st.ids
          /\ decls' = st.decls
          /\ bubbledVariables' = st.bv
          /\ changes' = st.changes
          /\ propagates' = st.propagates
          /\ error' = st.error
          /\ pc' = IF st.failed THEN "failed" ELSE "lowered"
    /\ UNCHANGED <<scopes, errorNode, ast, nodeScope, refToScope, options, loopVars,
                   classVars, fnNodes, nameByToken, thisUsing, histVars>>

NextParams == FunctionDestructuringAndDefaultsAndRest

SpecParams == InitParams /\ [][NextParams]_vars

(***************************************************************************)
(* Properties of the parameter lowering pass                               *)
(***************************************************************************)
\* The statements the pass put at the start of the function body.
Prologue == {changes[i].str[1] : i \in {j \in 1..Len(changes) :
                 changes[j].op = "push" /\ changes[j].start = fnNodes[1].bodyRange0 + 1
                     /\ changes[j].end = changes[j].start}}

\* Parameter i (from 1) of the function has a default and is no pattern.
DefaultedIdentifier(i) ==
    /\ i > Len(fnNodes[1].params) - Len(fnNodes[1].defaults)
    /\ ~isPattern(fnNodes[1].params[i])

DefaultOf(i) == fnNodes[1].defaults[i - (Len(fnNodes[1].params) - Len(fnNodes[1].defaults))]

SelfReferential(i) ==
    DefaultOf(i).type = "Identifier" /\ DefaultOf(i).name = fnNodes[1].params[i].name

NoSelfReferentialDefault ==
    \A i \in 1..Len(fnNodes[1].params) :
        i > Len(fnNodes[1].params) - Len(fnNodes[1].defaults) => ~SelfReferential(i)

\* C11: once the pass has handled a function with trailing defaults (none of
\* them self-referential) and an optional rest parameter, the prologue holds,
\* for each defaulted parameter p at position i (counted from 0), the
\* statement that gives p the value arguments[i] and replaces it by the
\* default exactly when it is undefined, and for the rest parameter the
\* statement that gives it the slice of arguments from index n on, n being
\* the number of non-rest parameters.
C11_PrologueOfDefaultsAndRest ==
    (pc # "lowering" /\ NoSelfReferentialDefault) =>
        /\ \A i \in 1..Len(fnNodes[1].params) :
              DefaultedIdentifier(i) =>
                  LET p == fnNodes[1].params[i].name
                      a == "arguments[" \o ToString(i - 1) \o "]"
                  IN ("var " \o p \o " = " \o a \o ";if(" \o p \o " === void 0)" \o p
                         \o " = " \o DefaultOf(i).src \o ";") \in Prologue
        /\ fnNodes[1].rest # <<>> =>
              \E i \in 1..Len(changes) :
                  /\ changes[i].op = "push"
                  /\ changes[i].start = fnNodes[1].bodyRange0 + 1
                  /\ \E helper \in {bubbledVariables[l].name : l \in DOMAIN bubbledVariables} :
                        changes[i].str[1] =
                            "var " \o RestName \o " = " \o helper \o ".call(arguments, "
                                \o ToString(Len(fnNodes[1].params)) \o ");"

(***************************************************************************)
(* The unit of the const-write pass: declarations of x, writes to x (x = 1 *)
(* and x++), a write to the undeclared y that reads x, blocks and          *)
(* functions; x may also be an injected global.                            *)
(***************************************************************************)
ConstSymbols == {"const", "let", "var", "assign", "update", "readinto", "blk", "fnp", "end"}

\* const x = 1; x = 1;
ConstReassigned == Build(<<"const", "assign">>, "x").nodes

ConstTrees == {t \in {Build(q, "x").nodes : q \in SymbolSeqs(ConstSymbols)} : WellFormed(t)}

ConstOptions ==
    {[disallowUnknownReferences |-> FALSE, globals |-> g] :
        g \in {<<>>, [n \in {"x"} |-> FALSE], [n \in {"x"} |-> TRUE]}}

InitConst == InitTree(ConstTrees, ConstOptions)

NextConst == Pre

SpecConst == InitConst /\ [][NextConst]_vars

\* The const-write pass ran: the passes before it reported nothing.
ConstPassRan == pc \in {"resolved", "failed"} /\ error \in {"", "ConstReassignmentError"}

\* Identifier n is the target of an assignment or update expression.
WriteTarget(n) ==
    /\ ast[n].type = "Identifier"
    /\ \/ ast[ast[n].parent].type = "AssignmentExpression" /\ ast[n].slot = "left"
       \/ ast[ast[n].parent].type = "UpdateExpression" /\ ast[n].slot = "argument"

ResolvesToConst(n) ==
    LET s == lookup(nodeScope[n], ast[n].name)
    IN s # 0 /\ decls[s][ast[n].name].kind = "const"

ConstWrites == {n \in 1..Len(ast) : WriteTarget(n) /\ ResolvesToConst(n)}

\* C12: the const-write pass reports ConstReassignmentError for an
\* assignment or update expression whose target identifier resolves to a
\* const-kind declaration (a const of the program or an injected
\* non-writable global), at the first such write of the unit, and reports
\* nothing when no write has such a target; const x = 1; x = 1; is rejected.
C12_ConstWritesReported ==
    /\ ConstPassRan =>
          IF ConstWrites = {}
          THEN error = ""
          ELSE /\ error = "ConstReassignmentError"
               /\ errorNode \in ConstWrites
               /\ \A n \in ConstWrites : errorNode <= n
    /\ (pc # "parsed" /\ ast = ConstReassigned) => error = "ConstReassignmentError"

\* An update expression on an injected non-writable global was rejected in
\* a unit that also writes to the undeclared y.
C12_Witness ==
    /\ pc = "failed"
    /\ error = "ConstReassignmentError"
    /\ ast[ast[errorNode].parent].type = "UpdateExpression"
    /\ scopes[lookup(nodeScope[errorNode], "x")].parent = 0
    /\ \E n \in 1..(errorNode - 1) : WriteTarget(n) /\ ast[n].name = "y"

(***************************************************************************)
(* The passes over a whole tree: core.pre, then the class-lowering engine  *)
(* and the parameter lowering pass, each a traversal that hands every node *)
(* to the pass's handler.                                                  *)
(***************************************************************************)
\* The function node n of a tree as the parameter pass reads it.
fnOfTree(tree, nscope, n) ==
    LET piece(c) == [type |-> tree[c].type, name |-> tree[c].name, declares |-> tree[c].name,
                     src |-> "", range0 |-> rangeStart(tree, c), range1 |-> rangeEnd(tree, c)]
        seq(slot) == [i \in 1..Len(ChildrenSeq(tree, n, slot)) |->
                         piece(ChildrenSeq(tree, n, slot)[i])]
        body == ChildrenSeq(tree, n, "body")
    IN [type |-> tree[n].type, params |-> seq("params"), defaults |-> seq("defaults"),
        rest |-> seq("rest"),
        bodyRange0 |-> IF body = <<>> THEN 0 ELSE rangeStart(tree, body[1]),
        scope |-> nscope[n]]

\* The class node n of a tree as the class engine reads it.
classOfTree(tree, n) ==
    [name |-> tree[ChildrenSeq(tree, n, "id")[1]].name, superClass |-> "", body |-> <<>>]

isClass(tree, n) == tree[n].type \in {"ClassDeclaration", "ClassExpression"}

\* traverse(ast, {pre: functionDestructuringAndDefaultsAndRest})
RECURSIVE functionsPassFrom(_, _, _, _)
functionsPassFrom(st, tree, nscope, n) ==
    IF n > Len(tree) \/ st.failed THEN st
    ELSE Then(functionDestructuringAndDefaultsAndRest(st, fnOfTree(tree, nscope, n)),
              LAMBDA s : functionsPassFrom(s, tree, nscope, n + 1))

\* The class engine's traversal; k counts the classes met.
RECURSIVE classesPassFrom(_, _, _, _, _)
classesPassFrom(st, tree, nscope, n, k) ==
    IF n > Len(tree) \/ st.failed THEN st
    ELSE IF isClass(tree, n)
    THEN Then(replaceClassBody(st, k, classOfTree(tree, n), nscope[n]),
              LAMBDA s : classesPassFrom([s EXCEPT !.error = IF s.failed THEN "AssertionError"
                                                               ELSE @],
                                         tree, nscope, n + 1, k + 1))
    ELSE classesPassFrom(st, tree, nscope, n + 1, k)

\* The state a lowering pass starts from and the state it leaves.
PassState ==
    [ids |-> allIdentifiers, decls |-> decls, bv |-> bubbledVariables, changes |-> changes,
     propagates |-> propagates, ct |-> classesTranspiler, result |-> "", failed |-> FALSE,
     error |-> ""]

ApplyPass(st, done) ==
    /\ allIdentifiers' = st.ids
    /\ decls' = st.decls
    /\ bubbledVariables' = st.bv
    /\ changes' = st.changes
    /\ propagates' = st.propagates
    /\ classesTranspiler' = st.ct
    /\ error' = st.error
    /\ pc' = IF st.failed THEN "failed" ELSE done
    /\ UNCHANGED <<scopes, errorNode, ast, nodeScope, refToScope, options, loopVars,
                   classNodes, unitVars, histVars>>

\* The class-lowering engine over the tree.
ClassesPass ==
    /\ pc \in {"resolved", "functionsDone"}
    /\ \E st \in {classesPassFrom(PassState, ast, nodeScope, 1, 1)} :
          ApplyPass(st, IF pc = "resolved" THEN "classesDone" ELSE "lowered")

\* The parameter lowering pass over the tree.
FunctionsPass ==
    /\ pc \in {"resolved", "classesDone"}
    /\ \E st \in {functionsPassFrom(PassState, ast, nodeScope, 1)} :
          ApplyPass(st, IF pc = "resolved" THEN "functionsDone" ELSE "lowered")

\* The unit of the whole lowering: var, let and class declarations, writes,
\* loops, blocks and functions with a parameter or with a rest parameter.
LowerSymbols == {"var", "let", "assign", "class", "fnp", "fnrest", "while", "blk", "end"}

LowerTrees == {t \in {Build(q, "x").nodes : q \in SymbolSeqs(LowerSymbols)} : WellFormed(t)}

InitLower == InitTree(LowerTrees, {[disallowUnknownReferences |-> FALSE, globals |-> <<>>]})

NextLower == Pre \/ ClassesPass \/ FunctionsPass

SpecLower == InitLower /\ [][NextLower]_vars

\* The tree has no class, no let or const, no pattern, and no function with
\* a default or a rest parameter.
PlainProgram ==
    \A n \in 1..Len(ast) :
        /\ ~isClass(ast, n)
        /\ ast[n].type = "VariableDeclaration" => ~isConstLet(ast[n].kind)
        /\ ast[n].type \notin {"ObjectPattern", "ArrayPattern"}
        /\ ast[n].slot \notin {"defaults", "rest"}

\* C13: for a program with no class, no let or const, no destructuring, no
\* default parameter and no rest parameter, the scope, reference and
\* const-write passes, the class-lowering engine and the parameter lowering
\* pass emit no text edit.
C13_PlainProgramNoEdits == PlainProgram => changes = <<>>

\* A plain program with a function taking a parameter went through every
\* pass; a program with a class or a rest parameter got edits.
C13_Witness ==
    /\ pc = "lowered"
    /\ PlainProgram
    /\ \E n \in 1..Len(ast) : ast[n].slot = "params"
    /\ \E n \in 1..Len(ast) : ast[n].type = "AssignmentExpression"

(***************************************************************************)
(* Units in sequence: a unit's lowering (names by token, classes), then    *)
(* reset() of the core and of the class engine, then setup() of the next   *)
(* unit.                                                                   *)
(***************************************************************************)
Tokens == {"t1", "t2"}

\* core.uniqueByToken(token, name, newVariable, additionalFilter)
uniqueByToken(memo, ids, token, name, newVariable, additionalFilter) ==
    IF token \in DOMAIN memo
    THEN [name |-> memo[token], ids |-> ids, memo |-> memo]
    ELSE Then(unique(ids, name, newVariable, additionalFilter),
              LAMBDA u : [name |-> u.name, ids |-> u.ids,
                          memo |-> [t \in DOMAIN memo \cup {token} |->
                                       IF t = token THEN u.name ELSE memo[t]]])

\* A call of core.uniqueByToken by a pass.
UniqueByTokenRequest(token, name) ==
    /\ pc = "lowering"
    /\ error = ""
    /\ Len(uniqueLog) < MaxUniqueRequests
    /\ \E u \in {uniqueByToken(nameByToken, allIdentifiers, token, name, TRUE, {})} :
          /\ allIdentifiers' = u.ids
          /\ nameByToken' = u.memo
          /\ uniqueLog' = Append(uniqueLog, UniqueEntry(allIdentifiers, name, TRUE, u.name))
    /\ UNCHANGED <<scopes, decls, propagates, bubbledVariables, changes, error, bubbleLog>>
    /\ UNCHANGED <<astVars, loopVars, classVars, fnNodes, thisUsing>>

\* core.reset()
CoreReset ==
    /\ pc \in {"lowering", "failed"}
    /\ allIdentifiers' = {}
    /\ outermostLoop' = 0
    /\ functions' = <<>>
    /\ bubbledVariables' = <<>>
    /\ pc' = "coreReset"
    /\ UNCHANGED <<scopes, decls, propagates, changes, error, errorNode, ast, nodeScope,
                   refToScope, options, classVars, unitVars, histVars>>

\* classesTranspiler.reset()
ClassesReset ==
    /\ pc = "coreReset"
    /\ classesTranspiler' =
           [classesTranspiler EXCEPT !.currentClassMethodsStatic = "null",
                                     !.currentClassName = "",
                                     !.superRefName = "",
                                     !.protoRefName = "",
                                     !.staticRefName = "",
                                     !.currentAccessors = "null",
                                     !.currentStaticAccessors = "null",
                                     !.currentFirstStaticAccessor = <<>>,
                                     !.staticPropertiesCount = 0,
                                     !.protoPropertiesCount = 0]
    /\ pc' = "reset"
    /\ UNCHANGED <<coreVars, errorNode, ast, nodeScope, refToScope, options, loopVars,
                   classNodes, unitVars, histVars>>

\* setup() of the next unit: a new edit sink, the unit's scopes and the
\* identifiers of its source.
Setup ==
    /\ pc = "reset"
    /\ changes' = <<>>
    /\ decls' = EmptyDecls(2)
    /\ propagates' = EmptySets(2)
    /\ allIdentifiers' \in SUBSET {"a$0", "S"}
    /\ error' = ""
    /\ classNodes' = <<>>
    /\ pc' = "lowering"
    /\ UNCHANGED <<scopes, bubbledVariables, errorNode, ast, nodeScope, refToScope, options,
                   loopVars, classesTranspiler, unitVars, histVars>>

\* The classes of these units: empty, with a static accessor, with a
\* superclass and a method.
ResetShapes ==
    {[superClass |-> "", body |-> <<>>],
     [superClass |-> "", body |-> << Member("get", TRUE, FALSE, "p", NoSite) >>],
     [superClass |-> "S", body |-> << Member("method", FALSE, FALSE, "m", NoSite) >>]}

InitReset ==
    /\ scopes = ProgramOnlyScopes
    /\ decls = EmptyDecls(2)
    /\ propagates = EmptySets(2)
    /\ allIdentifiers \in SUBSET {"a$0", "S"}
    /\ bubbledVariables = <<>>
    /\ changes = <<>>
    /\ error = ""
    /\ uniqueLog = <<>>
    /\ bubbleLog = <<>>
    /\ NoTree

NextReset ==
    \/ \E token \in Tokens, name \in BaseLabels : UniqueByTokenRequest(token, name)
    \/ \E shape \in ResetShapes : ReplaceClassBody(ClassDeclaration(Len(classNodes) + 1, shape))
    \/ CoreReset
    \/ ClassesReset
    \/ Setup

SpecReset == InitReset /\ [][NextReset]_vars

\* C14: after reset() on the core and on the class-lowering engine every
\* piece of unit-scoped state has its initial value: the name registry, the
\* shared-helper table, the per-token identifier memo, the outermost-loop
\* and function-stack tracker, the class engine's helper names, member
\* counters and first-static-accessor marker.  (The class engine's DP and
\* MIXIN, which it assigns anew for every class before reading them, are
\* left out of the comparison.)
C14_ResetRestoresInitialState ==
    pc = "reset" =>
        /\ allIdentifiers = {}
        /\ bubbledVariables = <<>>
        /\ nameByToken = <<>>
        /\ outermostLoop = 0
        /\ functions = <<>>
        /\ [classesTranspiler EXCEPT !.DP = "", !.MIXIN = ""] = ResetClassesTranspiler

\* The parameter-list cleanup edits: the pushed edits that replace text.
CleanupEdits == {i \in 1..Len(changes) : changes[i].op = "push" /\ changes[i].start < changes[i].end}

CleanupDisjoint ==
    \A i, j \in CleanupEdits :
        i # j => (changes[i].end <= changes[j].start \/ changes[j].end <= changes[i].start)

\* text with the edits of E applied, the rightmost first.
RECURSIVE applyEdits(_, _)
applyEdits(text, E) ==
    IF E = {} THEN text
    ELSE LET i == CHOOSE e \in E : \A o \in E : changes[o].start <= changes[e].start
         IN applyEdits(SubSeq(text, 1, changes[i].start) \o changes[i].str[1]
                           \o SubSeq(text, changes[i].end + 1, Len(text)),
                       E \ {i})

\* The slots that survive: the parameters without a default, a pattern
\* under the fresh name minted for it.
RECURSIVE survivors(_, _, _)
survivors(node, i, minted) ==
    IF i > Len(node.params) - Len(node.defaults) THEN <<>>
    ELSE IF isPattern(node.params[i])
    THEN << genName("$D", minted) >> \o survivors(node, i + 1, minted + 1)
    ELSE << node.params[i].name >> \o survivors(node, i + 1, minted)

CleanedSource == applyEdits(fnNodes[1].src, CleanupEdits)

ExpectedSource == FunctionHead \o join(survivors(fnNodes[1], 1, 0), ", ") \o "){}"

\* The cleanup of the functions without a default: patterns, plain
\* parameters and a rest parameter.
CleanupWithoutDefaults ==
    (pc = "lowered" /\ fnNodes[1].defaults = <<>>) =>
        CleanupDisjoint /\ CleanedSource = ExpectedSource

\* C15: for every function mixing plain, destructured, default-valued and
\* rest parameters (no default self-referential), the parameter-list cleanup
\* edits have pairwise disjoint ranges, and applying them leaves exactly the
\* surviving slots, the plain parameters and the fresh names of the
\* destructured ones, in their order, separated by one comma each, with no
\* leading or trailing comma; default-valued and rest slots are removed.
C15_CleanupLeavesSurvivors ==
    (pc # "lowering" /\ NoSelfReferentialDefault) =>
        CleanupDisjoint /\ CleanedSource = ExpectedSource

SelfReferentialDefaults ==
    {i \in 1..Len(fnNodes[1].params) :
        i > Len(fnNodes[1].params) - Len(fnNodes[1].defaults) /\ SelfReferential(i)}

\* C16: parameter lowering reports SelfReferentialDefaultError exactly when
\* a default expression is a bare identifier equal to the name of the
\* parameter it defaults; a function whose defaults name another variable,
\* or are expressions that mention the parameter, is not rejected.
C16_SelfReferenceExactly ==
    pc # "lowering" =>
        /\ error = "SelfReferentialDefaultError" <=> SelfReferentialDefaults # {}
        /\ SelfReferentialDefaults = {} => error = ""

(***************************************************************************)
(* The unit of the scope pass: let declarations, blocks, functions, for    *)
(* and for-in loops with a let, try/catch, arrow functions with a block    *)
(* body, () => () => this, and this.                                       *)
(***************************************************************************)
ScopeSymbols ==
    {"let", "blk", "fn", "forlet", "forinlet", "try", "arrow", "arrow2this", "this", "end"}

ScopeTrees == {t \in {Build(q, "x").nodes : q \in SymbolSeqs(ScopeSymbols)} : WellFormed(t)}

InitScopes == InitTree(ScopeTrees, {[disallowUnknownReferences |-> FALSE, globals |-> <<>>]})

NextScopes == Pre

SpecScopes == InitScopes /\ [][NextScopes]_vars

ScopesBuilt == pc # "parsed"

\* Node n has a scope of its own, of the given kind.
OwnScope(n, kind) ==
    /\ nodeScope[n] # 0
    /\ scopes[nodeScope[n]].node = n
    /\ scopes[nodeScope[n]].kind = kind

IsFunctionBody(n) == ast[n].type = "BlockStatement" /\ isFunctionType(ast[ast[n].parent].type)

\* The scopes of the constructs other than function bodies.
ScopesOfOtherConstructs ==
    ScopesBuilt =>
        \A n \in 1..Len(ast) :
            /\ (ast[n].type = "BlockStatement" /\ ~IsFunctionBody(n)) => OwnScope(n, "block")
            /\ ast[n].type = "CatchClause" => OwnScope(n, "catch-block")
            /\ (isForWithConstLet(ast, n) \/ isForInWithConstLet(ast, n)) => OwnScope(n, "block")
            /\ isFunction(ast, n) => OwnScope(n, "hoist")

\* C17: the scope pass creates a block scope for a BlockStatement exactly
\* when the block is not the body of a function: a function body shares the
\* function's hoisting scope, and every other block, every catch clause and
\* every for / for-in with a let or const declaration gets a scope.
C17_BlockScopeUnlessFunctionBody ==
    /\ ScopesOfOtherConstructs
    /\ ScopesBuilt =>
          \A n \in 1..Len(ast) :
              IsFunctionBody(n) =>
                  ~OwnScope(n, "block") /\ nodeScope[n] = nodeScope[ast[n].parent]

\* The arrow functions around node n up to, not including, the first
\* enclosing function that is no arrow function.
ArrowChain(n) ==
    {a \in 1..Len(ast) :
        /\ a # n
        /\ IsAncestorOrSelf(ast, a, n)
        /\ ast[a].type = "ArrowFunctionExpression"
        /\ \A f \in 1..Len(ast) :
              (f # n /\ IsAncestorOrSelf(ast, a, f) /\ IsAncestorOrSelf(ast, f, n)
                  /\ isFunction(ast, f)) => ast[f].type = "ArrowFunctionExpression"}

ThisNodes == {n \in 1..Len(ast) : ast[n].type = "ThisExpression"}

\* The functions whose scope is marked as using this.
MarkedFunctions == {scopes[s].node : s \in thisUsing}

\* C18: for each this inside nested arrow functions, every arrow function
\* from the innermost up to, not including, the first enclosing non-arrow
\* function (or the program) is marked as needing a bound receiver, with
\* expression bodies and with block bodies alike, and no other function is
\* marked.
C18_ArrowChainMarked ==
    ScopesBuilt => MarkedFunctions = UNION {ArrowChain(n) : n \in ThisNodes}

\* The marking of the arrow functions whose chain is written with expression
\* bodies only: () => () => this directly in a function or the program.
ExpressionBodiedChainsMarked ==
    ScopesBuilt =>
        \A n \in ThisNodes :
            (\A a \in ArrowChain(n) : \A c \in Children(ast, a, "body") :
                 ast[c].type # "BlockStatement")
                => ArrowChain(n) \subseteq MarkedFunctions

\* An error of the loop checker is reported at a reference that resolved to
\* a let or const declaration.
LoopErrorOnlyAtConstLet ==
    (LoopChecked /\ error = "UnsupportedLoopClosureError") =>
        /\ refToScope[errorNode] > 0
        /\ isConstLet(getKind(decls, refToScope[errorNode], ast[errorNode].name))

\* C19: the closure-in-loop checker fails only with
\* UnsupportedLoopClosureError: a reference inside a function inside a loop
\* that resolved to no declaration (an unresolved global, with
\* disallowUnknownReferences off) or to a declaration that is neither let
\* nor const is not reported, raises no other failure, and the traversal
\* goes on after it.
C19_OnlyUnsupportedLoopClosure ==
    /\ LoopErrorOnlyAtConstLet
    /\ LoopChecked => error \in {"", "UnsupportedLoopClosureError"}

\* Edit i holds the C.prototype = Object.create(...) statement of class k.
CreatesPrototype(k, i) ==
    \E q \in 1..Len(changes[i].str) :
        StartsWith(changes[i].str[q], classNodes[k].name \o ".prototype = Object.create(")

\* Edit i holds a statement that installs a member on the prototype of
\* class k: a call with C.prototype as its first argument, the in-place
\* definition of a computed accessor (by the helper DP) or the mixin of the
\* pending members (by the helper MIXIN, after the mixin of the pending
\* static members if there are any).
InstallsOnPrototype(k, i) ==
    LET target == "(" \o classNodes[k].name \o ".prototype,"
        DP == classesTranspiler.DP
        MIXIN == classesTranspiler.MIXIN
        statics == MIXIN \o "(" \o classNodes[k].name \o ","
                       \o classesTranspiler.staticRefName \o ");"
    IN \E q \in 1..Len(changes[i].str) :
          \/ StartsWith(changes[i].str[q], DP \o target)
          \/ StartsWith(changes[i].str[q], MIXIN \o target)
          \/ StartsWith(changes[i].str[q], statics \o MIXIN \o target)

\* C20: in the text emitted for a class with a superclass, the statement
\* C.prototype = Object.create(...) comes before every statement that
\* installs a member on C.prototype, the in-place definition of each
\* computed-key accessor and the mixin call of the pending prototype
\* members, wherever the explicit constructor stands among the members.
C20_PrototypeCreatedBeforeMembers ==
    \A k \in 1..Len(classNodes) :
        classNodes[k].superClass # "" =>
            \A i, j \in 1..Len(changes) :
                (CreatesPrototype(k, i) /\ InstallsOnPrototype(k, j))
                    => changes[i].start < changes[j].start

\* The same for the classes whose explicit constructor, if any, is the
\* first member.
PrototypeCreatedBeforeMembersConstructorFirst ==
    \A k \in 1..Len(classNodes) :
        (classNodes[k].superClass # "" /\ classConstructor(classNodes[k].body) <= 1) =>
            \A i, j \in 1..Len(changes) :
                (CreatesPrototype(k, i) /\ InstallsOnPrototype(k, j))
                    => changes[i].start < changes[j].start

(***************************************************************************)
(* The descriptors of the static accessors                                 *)
(***************************************************************************)
\* The class lowered last: the engine still holds its accessor tables.
LastClass == Len(classNodes)

\* The static-accessor installation of a class as the instance-accessor
\* descriptor builder would write its entries.
InstallationWithInstanceDescriptors(recipientStr, accessors) ==
    ";Object.defineProperties(" \o recipientStr \o ", {"
        \o join([i \in 1..Len(accessors) |-> accessorString(accessors[i])], ", ")
        \o "});"

\* The static accessor properties of the class lowered last that have
\* exactly the members of kinds.
StaticAccessorsWith(kinds) ==
    {i \in 1..Len(classesTranspiler.currentStaticAccessors) :
        LET accessor == classesTranspiler.currentStaticAccessors[i]
        IN {kind \in {"get", "set"} :
               (kind = "get" /\ accessor.get # "") \/ (kind = "set" /\ accessor.set # "")}
             = kinds}

\* A static accessor property with a setter (setter only, or getter and
\* setter) gets the descriptor the instance-accessor builder emits.
StaticDescriptorWithSetter ==
    (LastClass >= 1 /\ StaticAccessors(LastClass) # {} /\ StaticAccessorsWith({"get"}) = {})
        => \A i \in StaticInstallations(LastClass) :
              changes[i].str[1] =
                  InstallationWithInstanceDescriptors(
                      classNodes[LastClass].name, classesTranspiler.currentStaticAccessors)

\* C21: for every non-computed static accessor property, whichever members
\* it has (getter only, setter only, or both), the descriptor emitted by the
\* static-accessor installation lists its entries (get and/or set,
\* configurable, enumerable) separated by exactly one comma with no empty
\* entry: the entries the instance-accessor descriptor builder emits for
\* the same getter/setter combination.
C21_StaticDescriptorAsInstanceDescriptor ==
    (LastClass >= 1 /\ StaticAccessors(LastClass) # {})
        => \A i \in StaticInstallations(LastClass) :
              changes[i].str[1] =
                  InstallationWithInstanceDescriptors(
                      classNodes[LastClass].name, classesTranspiler.currentStaticAccessors)

\* A lowered class whose static accessor property has a getter and no
\* setter, with its installation emitted.
C21_GetterOnlyInstalled ==
    /\ LastClass >= 1
    /\ StaticAccessorsWith({"get"}) # {}
    /\ StaticInstallations(LastClass) # {}

\* A lowered class whose static accessor property has both a getter and a
\* setter, with its installation emitted.
C21_GetterAndSetterInstalled ==
    /\ LastClass >= 1
    /\ StaticAccessorsWith({"get", "set"}) # {}
    /\ StaticInstallations(LastClass) # {}

=============================================================================
